---- MODULE Spec2Model ----
(***************************************************************************)
(* BillTracer: the text clean-up, section segmentation, token diff and     *)
(* change-set construction of src/app.py (and its static twin              *)
(* src/explorer.py), modelled over character sequences.                    *)
(*                                                                         *)
(* A Python str is a sequence of one-character strings; a character       *)
(* outside ASCII is a one-element string with its name (NBSP is U+00A0,    *)
(* EMDASH is U+2014, ...).                                                 *)
(***************************************************************************)
EXTENDS Integers, Sequences, FiniteSets, TLC

VARIABLES
    pc,          \* position of the run: which function has been applied
    raw,         \* the text handed to sanitize_text / split_sections
    passes,      \* number of sanitize_text passes applied to raw
    sections,    \* the list returned by split_sections
    old_by_id,   \* index_by_id of the older version
    new_by_id,   \* index_by_id of the newer version
    changes,     \* summarize_changes: the change records, sorted
    stats,       \* summarize_changes: the four counters
    unchanged,   \* summarize_changes: the unchanged records
    min_diff,    \* threshold in force (MIN_DIFF_TOKENS)
    min_ratio,   \* threshold in force (MIN_EQUAL_RATIO), as <<num, den>>
    program,     \* the script that runs: "app" (app.py) or "explorer" (explorer.py)
    old_text,    \* the older of two texts handed to the diff functions
    new_text,    \* the newer of the two texts
    redline,     \* diff_words_preserve_ws: the returned markup
    opcodes,     \* diff_words_preserve_ws: sm.get_opcodes()
    magnitude,   \* diff_magnitude: [changed, ratio], ratio as <<num, den>>
    tags,        \* categorize_change: the returned list
    renumber_map, \* summarize_changes of explorer.py: build_renumber_map's result
    CACHE,       \* app.py: the rendered page and its time stamp, per preset
    now,         \* time.time(), in seconds
    response,    \* app.py: the last request handled and what was answered
    mirrors,     \* what each candidate URL answers: "down" or a page
    tried,       \* fetch_version: the kinds of the candidates requested so far
    last         \* fetch_version: the last exception caught

diff_vars == <<old_text, new_text, redline, opcodes, magnitude, tags>>

web_vars == <<CACHE, now, response>>

fetch_vars == <<mirrors, tried, last>>

vars == <<pc, raw, passes, sections, old_by_id, new_by_id, changes, stats,
          unchanged, min_diff, min_ratio, program, diff_vars, renumber_map,
          web_vars, fetch_vars>>

-----------------------------------------------------------------------------
(* Characters and Python str primitives                                    *)

NBSP == "nbsp"
EMDASH == "emdash"
ENDASH == "endash"
LDQUO == "ldquo"
RDQUO == "rdquo"
LSQUO == "lsquo"
RSQUO == "rsquo"
MIDDOT == "middot"
SECTSIGN == "sect"
THINSP == "thinsp"
NNBSP == "nnbsp"

Chars(s) == [i \in 1..Len(s) |-> SubSeq(s, i, i)]

\* str.isspace() / regex \s : U+00A0, U+2009 and U+202F are whitespace for both
Whitespace == {" ", "\t", "\n", "\r", "\f", NBSP, THINSP, NNBSP}

Blank == {" ", "\t"}

Digits == {"0", "1", "2", "3", "4", "5", "6", "7", "8", "9"}

UpperSeq == Chars("ABCDEFGHIJKLMNOPQRSTUVWXYZ")

LowerSeq == Chars("abcdefghijklmnopqrstuvwxyz")

Uppers == {UpperSeq[i] : i \in 1..26}

Lowers == {LowerSeq[i] : i \in 1..26}

Letters == Uppers \cup Lowers

\* regex \w
WordChars == Letters \cup Digits \cup {"_"}

Indices(s) == [i \in 1..Len(s) |-> i]

SetMin(S) == CHOOSE m \in S : \A k \in S : m <= k

SetMax(S) == CHOOSE m \in S : \A k \in S : m >= k

\* index just past the maximal run of characters of class C starting at i
RECURSIVE RunEnd(_, _, _)
RunEnd(s, i, C) == IF i > Len(s) \/ s[i] \notin C THEN i ELSE RunEnd(s, i + 1, C)

IsWordAt(t, p) == p >= 1 /\ p <= Len(t) /\ t[p] \in WordChars

\* regex \b just before index p
Boundary(t, p) == IsWordAt(t, p - 1) # IsWordAt(t, p)

\* index just past the run of non-newline characters starting at i (regex .*)
LineEnd(s, i) == SetMin({j \in i..(Len(s) + 1) : j = Len(s) + 1 \/ s[j] = "\n"})

\* str[i:e] with 1-based i and exclusive e
Slice(s, i, e) == SubSeq(s, i, e - 1)

\* str.lower() / re.IGNORECASE on the letters A-Z
LowerChar(c) ==
    IF c \in Uppers THEN LowerSeq[CHOOSE i \in 1..26 : UpperSeq[i] = c] ELSE c

Lower(s) == [i \in 1..Len(s) |-> LowerChar(s[i])]

\* the literal w occurs in s at index i
LitAt(s, i, w) == i + Len(w) - 1 <= Len(s) /\ SubSeq(s, i, i + Len(w) - 1) = w

\* str.strip()
Strip(s) ==
    LET keep == {i \in 1..Len(s) : s[i] \notin Whitespace}
    IN  IF keep = {} THEN <<>> ELSE SubSeq(s, SetMin(keep), SetMax(keep))

\* str.replace(a, b) for a single character a
ReplaceChar(s, a, b) == [i \in 1..Len(s) |-> IF s[i] = a THEN b ELSE s[i]]

\* str.split("\n"): always at least one piece
SplitLines(s) ==
    LET nl == {i \in 1..Len(s) : s[i] = "\n"}
        cut == nl \cup {0, Len(s) + 1}
        nxt(i) == SetMin({j \in cut : j > i})
        start[k \in 1..(Cardinality(nl) + 1)] ==
            IF k = 1 THEN 0 ELSE nxt(start[k - 1])
    IN  [k \in 1..(Cardinality(nl) + 1) |->
            Slice(s, start[k] + 1, nxt(start[k]))]

\* sep.join(parts)
RECURSIVE Join(_, _)
Join(parts, sep) ==
    IF Len(parts) = 0 THEN <<>>
    ELSE IF Len(parts) = 1 THEN parts[1]
    ELSE parts[1] \o sep \o Join(Tail(parts), sep)

-----------------------------------------------------------------------------
(* sanitize_text                                                           *)

CrLfEnd(s, i) == IF s[i] = "\r" /\ i < Len(s) /\ s[i + 1] = "\n" THEN i + 2 ELSE 0

ToNewline(s, i, e) == <<"\n">>

BlankRunEnd(s, i) == IF s[i] \in Blank THEN RunEnd(s, i, Blank) ELSE 0

ToSpace(s, i, e) == <<" ">>

Punct == {",", ".", ";", ":"}

\* r" \s*([,.;:])" : a space, any whitespace, then one of , . ; :
SpacePunctEnd(s, i) ==
    IF s[i] # " " THEN 0
    ELSE LET e == RunEnd(s, i + 1, Whitespace)
         IN  IF e <= Len(s) /\ s[e] \in Punct THEN e + 1 ELSE 0

LastOfMatch(s, i, e) == <<s[e - 1]>>

\* r"\(\s+" and r"\[\s+" : the bracket c followed by at least one whitespace
OpenWsEnd(s, i, c) ==
    IF s[i] # c THEN 0
    ELSE LET e == RunEnd(s, i + 1, Whitespace) IN IF e > i + 1 THEN e ELSE 0

\* r"\s+\)" and r"\s+\]" : at least one whitespace followed by the bracket c
WsCloseEnd(s, i, c) ==
    IF s[i] \notin Whitespace THEN 0
    ELSE LET e == RunEnd(s, i, Whitespace)
         IN  IF e <= Len(s) /\ s[e] = c THEN e + 1 ELSE 0

OpenParenEnd(s, i) == OpenWsEnd(s, i, "(")

CloseParenEnd(s, i) == WsCloseEnd(s, i, ")")

OpenBracketEnd(s, i) == OpenWsEnd(s, i, "[")

CloseBracketEnd(s, i) == WsCloseEnd(s, i, "]")

FirstOfMatch(s, i, e) == <<s[i]>>

\* re.search(r"[.;:)]\s*$", t)
LineCloser == {".", ";", ":", ")"}

EndsLogicalLine(t) ==
    LET e == SetMax({0} \cup {i \in 1..Len(t) : t[i] \notin Whitespace})
    IN  e > 0 /\ t[e] \in LineCloser

\* the re-wrap loop: st = [out, buf] after the first k lines
Rewrap(lines) ==
    LET step[k \in 0..Len(lines)] ==
            IF k = 0 THEN [out |-> <<>>, buf |-> <<>>]
            ELSE LET p == step[k - 1]
                     t == Strip(lines[k])
                 IN  IF t = <<>>
                     THEN [out |-> (IF p.buf # <<>>
                                    THEN Append(p.out, Join(p.buf, <<" ">>))
                                    ELSE p.out) \o << <<>> >>,
                           buf |-> <<>>]
                     ELSE IF EndsLogicalLine(t)
                     THEN [out |-> Append(p.out, Join(Append(p.buf, t), <<" ">>)),
                           buf |-> <<>>]
                     ELSE [out |-> p.out, buf |-> Append(p.buf, t)]
        fin == step[Len(lines)]
    IN  IF fin.buf # <<>> THEN Append(fin.out, Join(fin.buf, <<" ">>)) ELSE fin.out

\* r"\n{3,}"
NewlineRunEnd(s, i) ==
    IF s[i] # "\n" THEN 0
    ELSE LET e == RunEnd(s, i, {"\n"}) IN IF e - i >= 3 THEN e ELSE 0

ToTwoNewlines(s, i, e) == <<"\n", "\n">>

\* explorer.py, normalize_for_diff: r"\s+([,.;:])"
WsPunctEnd(s, i) ==
    IF s[i] \notin Whitespace THEN 0
    ELSE LET e == RunEnd(s, i, Whitespace)
         IN  IF e <= Len(s) /\ s[e] \in Punct THEN e + 1 ELSE 0

\* ",ddd" at index p
GroupAt(s, p) ==
    /\ p + 3 <= Len(s)
    /\ s[p] = ","
    /\ \A t \in 1..3 : s[p + t] \in Digits

\* explorer.py, normalize_for_diff: r'\b(\d{1,3})(,\d{3})+\b' : one to three
\* digits that start a word, then as many ",ddd" groups as leave a word
\* boundary behind them, at least one
GroupedEnd(s, i) ==
    IF ~ (s[i] \in Digits /\ Boundary(s, i)) THEN 0
    ELSE LET d == RunEnd(s, i, Digits)
             ends == {e \in (d + 4)..(Len(s) + 1) :
                        /\ (e - d) % 4 = 0
                        /\ \A g \in 0..(((e - d) \div 4) - 1) : GroupAt(s, d + 4 * g)
                        /\ Boundary(s, e)}
         IN  IF d - i > 3 \/ ends = {} THEN 0 ELSE SetMax(ends)

\* m.group(0).replace(',', '')
WithoutCommas(s, i, e) == SelectSeq(Slice(s, i, e), LAMBDA c : c # ",")

-----------------------------------------------------------------------------
(* html_to_text, xml_to_text of app.py and of fetch_bills.py               *)

BULLET == "bullet"

BACKSLASH == "\\"

\* the literal w, given in lower case, at index i of s in any case
ILitAt(s, i, w) ==
    i + Len(w) - 1 <= Len(s) /\ Lower(SubSeq(s, i, i + Len(w) - 1)) = w

\* [^>]*> from index i: the index of the first ">" at or after i, 0 if none
TagClose(s, i) ==
    IF \E j \in i..Len(s) : s[j] = ">"
    THEN CHOOSE j \in i..Len(s) : s[j] = ">" /\ \A k \in i..(j - 1) : s[k] # ">"
    ELSE 0

\* .*?w from index i: the index past the first w at or after i, 0 if none
PastFirst(s, i, w) ==
    IF \E j \in i..Len(s) : ILitAt(s, j, w)
    THEN Len(w) + (CHOOSE j \in i..Len(s) :
                      ILitAt(s, j, w) /\ \A k \in i..(j - 1) : ~ ILitAt(s, k, w))
    ELSE 0

\* the element that opens at the first ">" g and ends with closer
ElementBody(s, g, closer) == IF g = 0 THEN 0 ELSE PastFirst(s, g + 1, closer)

\* <name[^>]*>.*?closer
ElementEnd(s, i, name, closer) ==
    IF ILitAt(s, i, <<"<">> \o name)
    THEN ElementBody(s, TagClose(s, i + 1 + Len(name)), closer)
    ELSE 0

\* r"(?is)<(script|style)[^>]*>.*?</\1>"
ScriptStyleEnd(s, i) ==
    IF ILitAt(s, i, Chars("<script"))
    THEN ElementEnd(s, i, Chars("script"), Chars("</script>"))
    ELSE ElementEnd(s, i, Chars("style"), Chars("</style>"))

\* fetch_bills.py, r"(?is)<(script|style)[^>]*>.*?</\\1>": the element ends
\* with "</", a backslash and "1>"
fetch_bills_ScriptStyleEnd(s, i) ==
    IF ILitAt(s, i, Chars("<script"))
    THEN ElementEnd(s, i, Chars("script"), <<"<", "/", BACKSLASH, "1", ">">>)
    ELSE ElementEnd(s, i, Chars("style"), <<"<", "/", BACKSLASH, "1", ">">>)

\* /?> at index w
SlashGt(s, w) ==
    IF w <= Len(s) /\ s[w] = ">" THEN w + 1
    ELSE IF w + 1 <= Len(s) /\ s[w] = "/" /\ s[w + 1] = ">" THEN w + 2
    ELSE 0

\* r"(?is)<br\s*/?>"
BrEnd(s, i) ==
    IF ILitAt(s, i, Chars("<br")) THEN SlashGt(s, RunEnd(s, i + 3, Whitespace)) ELSE 0

\* fetch_bills.py, r"(?is)<br\\s*/?>": "<br", a backslash, any number of "s"
fetch_bills_BrEnd(s, i) ==
    IF ILitAt(s, i, <<"<", "b", "r", BACKSLASH>>)
    THEN SlashGt(s, RunEnd(s, i + 4, {"s", "S"}))
    ELSE 0

\* </name> for a name of names, in any case
CloseTagEnd(s, i, names) ==
    IF ILitAt(s, i, Chars("</")) /\ \E n \in names : ILitAt(s, i + 2, n \o <<">">>)
    THEN i + 3 + Len(CHOOSE n \in names : ILitAt(s, i + 2, n \o <<">">>))
    ELSE 0

\* <name[^>]*> for a name of names, in any case
OpenTagEnd(s, i, names) ==
    IF s[i] = "<" /\ (\E n \in names : ILitAt(s, i + 1, n)) /\ TagClose(s, i + 1) > 0
    THEN TagClose(s, i + 1) + 1
    ELSE 0

\* r"(?is)</p>"
ClosePEnd(s, i) == CloseTagEnd(s, i, {<<"p">>})

HtmlBlocks ==
    {Chars("div"), Chars("section"), Chars("li"), Chars("tr"), Chars("td"),
     Chars("thead"), Chars("tbody")}

\* r"(?is)</(h\d|div|section|li|tr|td|thead|tbody)>"
CloseBlockEnd(s, i) ==
    IF ILitAt(s, i, Chars("</h")) /\ i + 4 <= Len(s) /\ s[i + 3] \in Digits
       /\ s[i + 4] = ">"
    THEN i + 5
    ELSE CloseTagEnd(s, i, HtmlBlocks)

\* fetch_bills.py, r"(?is)</(h\\d|div|section|li|tr|td|thead|tbody)>": the
\* first name is "h", a backslash and "d"
fetch_bills_CloseBlockEnd(s, i) ==
    CloseTagEnd(s, i, HtmlBlocks \cup {<<"h", BACKSLASH, "d">>})

\* r"(?is)<li[^>]*>"
LiEnd(s, i) == OpenTagEnd(s, i, {Chars("li")})

\* r"(?is)<[^>]+>"
AnyTagEnd(s, i) ==
    IF s[i] = "<" /\ i + 1 <= Len(s) /\ s[i + 1] # ">" /\ TagClose(s, i + 1) > 0
    THEN TagClose(s, i + 1) + 1
    ELSE 0

\* the index past the last newline of the whitespace run i..(e - 1), if the
\* run holds three newlines
PastLastNewline(s, i, e) ==
    IF Cardinality({j \in i..(e - 1) : s[j] = "\n"}) >= 3
    THEN SetMax({j \in i..(e - 1) : s[j] = "\n"}) + 1
    ELSE 0

\* r"\n\s*\n\s*\n+"
BlankLinesEnd(s, i) ==
    IF s[i] = "\n" THEN PastLastNewline(s, i, RunEnd(s, i, Whitespace)) ELSE 0

\* fetch_bills.py, r"[ \\t]+": spaces, backslashes and the letter t
fetch_bills_BlankRunEnd(s, i) ==
    IF s[i] \in {" ", BACKSLASH, "t"} THEN RunEnd(s, i, {" ", BACKSLASH, "t"}) ELSE 0

\* a backslash and at least one "n" at index b
BackslashNs(s, b) ==
    IF b + 1 <= Len(s) /\ s[b] = BACKSLASH /\ s[b + 1] = "n"
    THEN RunEnd(s, b + 1, {"n"})
    ELSE 0

\* \\n\\s* at index i: a backslash, "n", a backslash, any number of "s"
BackslashNBackslashSs(s, i) ==
    IF LitAt(s, i, <<BACKSLASH, "n", BACKSLASH>>) THEN RunEnd(s, i + 3, {"s"}) ELSE 0

\* the second \\n\\s* and the \\n+ that follow the first at index a
SecondAndThird(s, a) ==
    IF a = 0 \/ BackslashNBackslashSs(s, a) = 0 THEN 0
    ELSE BackslashNs(s, BackslashNBackslashSs(s, a))

\* fetch_bills.py, r"\\n\\s*\\n\\s*\\n+": the characters of the pattern
\* themselves, backslashes included
fetch_bills_BlankLinesEnd(s, i) == SecondAndThird(s, BackslashNBackslashSs(s, i))

\* fetch_bills.py, s.replace("\\u00A0", " "): a backslash and "u00A0"
fetch_bills_NbspEnd(s, i) ==
    IF LitAt(s, i, <<BACKSLASH, "u", "0", "0", "A", "0">>) THEN i + 6 ELSE 0

XmlBlocks ==
    {Chars("officialtitle"), Chars("shorttitle"), Chars("longtitle"), Chars("title"),
     Chars("section"), Chars("subsection"), Chars("paragraph"),
     Chars("subparagraph"), Chars("text"), Chars("quotedblock")}

\* fr"(?is)<{block_tags}[^>]*>"
OpenBlockEnd(s, i) == OpenTagEnd(s, i, XmlBlocks)

\* fr"(?is)</{block_tags}>"
CloseXmlBlockEnd(s, i) == CloseTagEnd(s, i, XmlBlocks)

\* r"(?is)<note[^>]*>"
NoteEnd(s, i) == OpenTagEnd(s, i, {Chars("note")})

\* r"(?is)</note>"
CloseNoteEnd(s, i) == CloseTagEnd(s, i, {Chars("note")})

\* the patterns re.sub substitutes: index just past the match of
\* pattern rx starting at i (0 if none), and its replacement
SubEnd(rx, s, i) ==
    CASE rx = "crlf" -> CrLfEnd(s, i)
      [] rx = "blanks" -> BlankRunEnd(s, i)
      [] rx = "space_punct" -> SpacePunctEnd(s, i)
      [] rx = "open_paren" -> OpenParenEnd(s, i)
      [] rx = "close_paren" -> CloseParenEnd(s, i)
      [] rx = "open_bracket" -> OpenBracketEnd(s, i)
      [] rx = "close_bracket" -> CloseBracketEnd(s, i)
      [] rx = "newlines" -> NewlineRunEnd(s, i)
      [] rx = "grouped" -> GroupedEnd(s, i)
      [] rx = "ws_punct" -> WsPunctEnd(s, i)
      [] rx = "script_style" -> ScriptStyleEnd(s, i)
      [] rx = "br" -> BrEnd(s, i)
      [] rx = "close_p" -> ClosePEnd(s, i)
      [] rx = "close_block" -> CloseBlockEnd(s, i)
      [] rx = "li" -> LiEnd(s, i)
      [] rx = "any_tag" -> AnyTagEnd(s, i)
      [] rx = "blank_lines" -> BlankLinesEnd(s, i)
      [] rx = "open_xml_block" -> OpenBlockEnd(s, i)
      [] rx = "close_xml_block" -> CloseXmlBlockEnd(s, i)
      [] rx = "note" -> NoteEnd(s, i)
      [] rx = "close_note" -> CloseNoteEnd(s, i)
      [] rx = "fetch_bills_script_style" -> fetch_bills_ScriptStyleEnd(s, i)
      [] rx = "fetch_bills_br" -> fetch_bills_BrEnd(s, i)
      [] rx = "fetch_bills_close_block" -> fetch_bills_CloseBlockEnd(s, i)
      [] rx = "fetch_bills_nbsp" -> fetch_bills_NbspEnd(s, i)
      [] rx = "fetch_bills_blanks" -> fetch_bills_BlankRunEnd(s, i)
      [] rx = "fetch_bills_blank_lines" -> fetch_bills_BlankLinesEnd(s, i)

SubRepl(rx, s, i, e) ==
    CASE rx = "crlf" -> ToNewline(s, i, e)
      [] rx = "blanks" -> ToSpace(s, i, e)
      [] rx = "space_punct" -> LastOfMatch(s, i, e)
      [] rx = "open_paren" -> FirstOfMatch(s, i, e)
      [] rx = "close_paren" -> LastOfMatch(s, i, e)
      [] rx = "open_bracket" -> FirstOfMatch(s, i, e)
      [] rx = "close_bracket" -> LastOfMatch(s, i, e)
      [] rx = "newlines" -> ToTwoNewlines(s, i, e)
      [] rx = "grouped" -> WithoutCommas(s, i, e)
      [] rx = "ws_punct" -> LastOfMatch(s, i, e)
      [] rx \in {"script_style", "any_tag", "fetch_bills_script_style",
                 "fetch_bills_nbsp", "fetch_bills_blanks"} -> ToSpace(s, i, e)
      [] rx \in {"br", "close_block", "open_xml_block", "close_xml_block",
                 "fetch_bills_br", "fetch_bills_close_block"} -> ToNewline(s, i, e)
      [] rx \in {"close_p", "blank_lines", "fetch_bills_blank_lines"} ->
            ToTwoNewlines(s, i, e)
      [] rx = "li" -> <<" ", BULLET, " ">>
      [] rx = "note" -> Chars(" (Note: ")
      [] rx = "close_note" -> Chars(") ")

\* re.sub at position i, e being the end of the match that starts there or
\* i if none does: <<what is written, where the scan goes on>>
SubAt(s, rx, i, e) ==
    IF e > i THEN <<SubRepl(rx, s, i, e), e>> ELSE << <<s[i]>>, i + 1>>

\* the scan of re.sub over the positions lo..hi, entered at i >= lo, in two
\* halves: <<what is written, where the scan goes on>>
RECURSIVE SubScan(_, _, _, _, _)

\* what the left half has written, followed by the scan of the right half
After(out, right) == <<out \o right[1], right[2]>>

ThenScan(s, rx, left, lo, hi) == After(left[1], SubScan(s, rx, left[2], lo, hi))

SubScan(s, rx, i, lo, hi) ==
    IF i > hi THEN << <<>>, i>>
    ELSE IF lo = hi THEN SubAt(s, rx, i, SubEnd(rx, s, i))
    ELSE ThenScan(s, rx, SubScan(s, rx, i, lo, (lo + hi) \div 2),
                  ((lo + hi) \div 2) + 1, hi)

\* re.sub(rx, repl, s): matches are taken leftmost and do not overlap; none
\* of the patterns matches the empty string
ReSub(s, rx) == SubScan(s, rx, 1, 1, Len(s))[1]

\* the last three steps of html_to_text and xml_to_text, then strip()
Spaced(s) ==
    Strip(ReSub(ReSub(ReplaceChar(s, NBSP, " "), "blanks"), "blank_lines"))

html_to_text(s) ==
    Spaced(ReSub(ReSub(ReSub(ReSub(ReSub(ReSub(s,
        "script_style"), "br"), "close_p"), "close_block"), "li"), "any_tag"))

xml_to_text(s) ==
    Spaced(ReSub(ReSub(ReSub(ReSub(ReSub(s,
        "open_xml_block"), "close_xml_block"), "note"), "close_note"), "any_tag"))

\* fetch_bills.py: the last three steps of its html_to_text and xml_to_text
fetch_bills_Spaced(s) ==
    Strip(ReSub(ReSub(ReSub(s, "fetch_bills_nbsp"), "fetch_bills_blanks"),
                "fetch_bills_blank_lines"))

fetch_bills_html_to_text(s) ==
    fetch_bills_Spaced(ReSub(ReSub(ReSub(ReSub(ReSub(ReSub(s,
        "fetch_bills_script_style"), "fetch_bills_br"), "close_p"),
        "fetch_bills_close_block"), "li"), "any_tag"))

fetch_bills_xml_to_text(s) ==
    fetch_bills_Spaced(ReSub(ReSub(ReSub(ReSub(ReSub(s,
        "open_xml_block"), "close_xml_block"), "note"), "close_note"), "any_tag"))

ErrorPhrases ==
    {Chars("page not found"), Chars("error occurred"), Chars("cannot be found"),
     Chars("access denied"), Chars("forbidden"), Chars("drupal"),
     Chars("govinfo error")}

\* looks_like_error, the same in app.py and fetch_bills.py
looks_like_error(text) ==
    \/ Len(Strip(text)) < 800
    \/ \E i \in 1..Len(text) : \E w \in ErrorPhrases : ILitAt(text, i, w)

\* the replacements before the re-wrap loop, one after the other
Tidy(s) ==
    ReSub(ReSub(ReSub(ReSub(ReSub(ReSub(
        ReplaceChar(ReplaceChar(ReSub(s, "crlf"), "\r", "\n"), NBSP, " "),
        "blanks"), "space_punct"), "open_paren"), "close_paren"),
        "open_bracket"), "close_bracket")

sanitize_text(s0) ==
    Strip(ReSub(Join(Rewrap(SplitLines(Tidy(s0))), <<"\n">>), "newlines"))

-----------------------------------------------------------------------------
(* Section headers: SEC_RE, DIVISION_RE, TITLE_RE, SUBTITLE_RE             *)

\* ^ under re.MULTILINE
AtLineStart(s, i) == i = 1 \/ s[i - 1] = "\n"

\* $ under re.MULTILINE, tested at index i
AtLineEnd(s, i) == i = Len(s) + 1 \/ s[i] = "\n"

SEC_KEYWORDS == {Chars("SEC."), Chars("Sec.")}

SecTerminators == {".", ":", " "}

\* (?:SEC\.|Sec\.)\s+(\d+[A-Za-z\-]*)[.: ] matched at index i, without the
\* anchor: [ws, dg, end] = start of the digits, index past the captured id,
\* index past the match; end = 0 when there is no match
SecHeadAt(s, i) ==
    LET none == [ws |-> 0, dg |-> 0, end |-> 0]
    IN  IF ~ \E k \in SEC_KEYWORDS : LitAt(s, i, k) THEN none
        ELSE LET a == i + 4
                 w == RunEnd(s, a, Whitespace)
                 d == RunEnd(s, w, Digits)
                 l == RunEnd(s, d, Letters \cup {"-"})
             IN  IF w > a /\ d > w /\ l <= Len(s) /\ s[l] \in SecTerminators
                 THEN [ws |-> w, dg |-> l, end |-> l + 1]
                 ELSE none

SecEnd(s, i) == IF AtLineStart(s, i) THEN SecHeadAt(s, i).end ELSE 0

Roman == {"I", "V", "X", "L", "C"}

Dashes == {EMDASH, "-"}

\* ^(?:KEYWORD\s+<unit>(?:\s*[—-].*)?)$ matched at index i, where the
\* unit is a run of class C, of length one when single; 0 when no match
BlockHeadEnd(s, i, keyword, C, single) ==
    IF ~ (AtLineStart(s, i) /\ LitAt(s, i, keyword)) THEN 0
    ELSE LET a == i + Len(keyword)
             w == RunEnd(s, a, Whitespace)
             u == IF single
                  THEN (IF w <= Len(s) /\ s[w] \in C THEN w + 1 ELSE w)
                  ELSE RunEnd(s, w, C)
             q == RunEnd(s, u, Whitespace)
         IN  IF ~ (w > a /\ u > w) THEN 0
             ELSE IF q <= Len(s) /\ s[q] \in Dashes
                  THEN LineEnd(s, q + 1)
             ELSE IF AtLineEnd(s, u) THEN u
             ELSE 0

DivisionEnd(s, i) == BlockHeadEnd(s, i, Chars("DIVISION"), Uppers, TRUE)

TitleEnd(s, i) == BlockHeadEnd(s, i, Chars("TITLE"), Roman, FALSE)

SubtitleEnd(s, i) == BlockHeadEnd(s, i, Chars("SUBTITLE"), Uppers, TRUE)

\* index just past the match of the header pattern rx at i, 0 if none
HeaderEnd(rx, s, i) ==
    CASE rx = "SEC" -> SecEnd(s, i)
      [] rx = "DIV" -> DivisionEnd(s, i)
      [] rx = "TITLE" -> TitleEnd(s, i)
      [] rx = "SUB" -> SubtitleEnd(s, i)

\* list(rx.finditer(raw)): the start indices of the matches, in order. The
\* scan resumes past each match, so a start lying inside the match before it
\* is none (no header pattern can match inside a match of itself).
FindIter(s, rx) ==
    LET starts == SelectSeq([i \in 1..Len(s) |-> i], LAMBDA i : HeaderEnd(rx, s, i) > 0)
        covered(k) == k > 1 /\ HeaderEnd(rx, s, starts[k - 1]) > starts[k]
        keep == SelectSeq([k \in 1..Len(starts) |-> k], LAMBDA k : ~ covered(k))
    IN  [k \in 1..Len(keep) |-> starts[keep[k]]]

-----------------------------------------------------------------------------
(* split_sections, index_by_id                                             *)

MAX_SEC_MATCHES == 800

DigitSeq == Chars("0123456789")

RECURSIVE Decimal(_)
Decimal(n) == IF n < 10 THEN <<DigitSeq[n + 1]>>
              ELSE Append(Decimal(n \div 10), DigitSeq[(n % 10) + 1])

\* f"{n:03d}"
Pad3(n) == LET d == Decimal(n)
           IN  IF Len(d) >= 3 THEN d ELSE [k \in 1..(3 - Len(d)) |-> "0"] \o d

\* index just past the match k of starts, i.e. matches[i+1].start() or len(raw)
NextStart(s, starts, k) == IF k < Len(starts) THEN starts[k + 1] ELSE Len(s) + 1

\* block.split("\n", 1)[0]
FirstLine(block) == Slice(block, 1, LineEnd(block, 1))

\* the title of a numbered section from its header line: group 1 of
\* ^(?:SEC\.|Sec\.)\s+\d+[A-Za-z\-]*[.: ]\s*(.*)$ stripped, else the line
SectionTitle(head, sid) ==
    LET m2 == IF Len(head) = 0 THEN 0 ELSE SecHeadAt(head, 1).end
        rest == IF m2 = 0 THEN head
                ELSE Strip(Slice(head, RunEnd(head, m2, Whitespace), Len(head) + 1))
    IN  IF rest # <<>> THEN rest ELSE Chars("Section ") \o sid

NumberedSections(s, starts) ==
    [k \in 1..Len(starts) |->
        LET m == SecHeadAt(s, starts[k])
            sid == Slice(s, m.ws, m.dg)
            block == Strip(Slice(s, starts[k], NextStart(s, starts, k)))
            head == FirstLine(block)
        IN  [sec_id |-> sid,
             title |-> SectionTitle(head, sid),
             body |-> Strip(Slice(block, Len(head) + 1, Len(block) + 1))]]

_split_by_matches(s, starts, id_prefix) ==
    [k \in 1..Len(starts) |->
        LET header == Strip(Slice(s, starts[k], HeaderEnd(id_prefix, s, starts[k])))
            chunk == Strip(Slice(s, starts[k], NextStart(s, starts, k)))
        IN  [sec_id |-> Chars(id_prefix) \o Pad3(k),
             title |-> header,
             body |-> Strip(Slice(chunk, Len(header) + 1, Len(chunk) + 1))]]

\* the last resort: one section holding the whole text
WholeTextUnstripped(s) ==
    << [sec_id |-> Chars("ALL"), title |-> Chars("FULL TEXT"), body |-> s] >>

WholeText(s) ==
    << [sec_id |-> Chars("ALL"), title |-> Chars("FULL TEXT"), body |-> Strip(s)] >>

\* the fallbacks tried in the order TITLE, DIVISION, SUBTITLE
FallbacksTitleFirst(s) ==
    LET div == FindIter(s, "DIV")
        ttl == FindIter(s, "TITLE")
        sub == FindIter(s, "SUB")
    IN  IF Len(ttl) > 0 THEN _split_by_matches(s, ttl, "TITLE")
        ELSE IF Len(div) > 0 THEN _split_by_matches(s, div, "DIV")
        ELSE IF Len(sub) > 0 THEN _split_by_matches(s, sub, "SUB")
        ELSE WholeText(s)

\* for rx, pref in [(DIVISION_RE, "DIV"), (TITLE_RE, "TITLE"), (SUBTITLE_RE, "SUB")]
Fallbacks(s) ==
    LET div == FindIter(s, "DIV")
        ttl == FindIter(s, "TITLE")
        sub == FindIter(s, "SUB")
    IN  IF Len(div) > 0 THEN _split_by_matches(s, div, "DIV")
        ELSE IF Len(ttl) > 0 THEN _split_by_matches(s, ttl, "TITLE")
        ELSE IF Len(sub) > 0 THEN _split_by_matches(s, sub, "SUB")
        ELSE WholeText(s)

split_sections(s) ==
    LET sec == FindIter(s, "SEC")
    IN  IF Len(sec) > 0 /\ Len(sec) <= MAX_SEC_MATCHES THEN NumberedSections(s, sec)
        ELSE Fallbacks(s)

\* {s["sec_id"]: s for s in sections}, a dict being the sequence of its
\* values in insertion order: a key stays where it was first inserted and a
\* later section replaces an earlier one with the same id
index_by_id(secs) ==
    LET firsts == SelectSeq(Indices(secs),
                    LAMBDA k : \A j \in 1..(k - 1) : secs[j].sec_id # secs[k].sec_id)
    IN  [n \in 1..Len(firsts) |->
            secs[SetMax({k \in firsts[n]..Len(secs) :
                           secs[k].sec_id = secs[firsts[n]].sec_id})]]

\* set(d), the keys of an index
Keys(ix) == {ix[k].sec_id : k \in 1..Len(ix)}

\* d.get(id) for a key of the index
Get(ix, id) == ix[CHOOSE k \in 1..Len(ix) : ix[k].sec_id = id]

-----------------------------------------------------------------------------
(* difflib.SequenceMatcher over two token lists; no junk function is ever  *)
(* given, so "junk" is only the popular elements the autojunk heuristic    *)
(* leaves out of b2j                                                       *)

Min2(x, y) == IF x <= y THEN x ELSE y

Max2(x, y) == IF x >= y THEN x ELSE y

\* __chain_b: with autojunk and len(b) >= 200, the elements of b that occur
\* more than len(b) // 100 + 1 times
Popular(b, autojunk) ==
    IF autojunk /\ Len(b) >= 200
    THEN {x \in {b[j] : j \in 1..Len(b)} :
            Cardinality({j \in 1..Len(b) : b[j] = x}) > (Len(b) \div 100) + 1}
    ELSE {}

\* number of steps t = 0, 1, ... for which a[i - t] = b[j - t] stays inside
\* the window (i - t >= alo, j - t >= blo) and b[j - t] is in b2j
BackRun(a, b, pop, i, j, alo, blo) ==
    LET lim == Min2(i - alo, j - blo) + 1
    IN  SetMin({t \in 0..lim :
                  t = lim \/ a[i - t] # b[j - t] \/ b[j - t] \in pop})

\* number of steps t = 0, 1, ... for which a[i + t] = b[j + t] stays inside
\* the window (i + t < ahi, j + t < bhi)
ForwardRun(a, b, i, j, ahi, bhi) ==
    LET lim == Min2(ahi - i, bhi - j)
    IN  SetMin({t \in 0..lim : t = lim \/ a[i + t] # b[j + t]})

\* the pairs (i, j) of the window with a[i] = b[j] and b[j] in b2j
MatchCells(a, b, pop, alo, ahi, blo, bhi) ==
    {c \in (alo..(ahi - 1)) \X (blo..(bhi - 1)) :
        a[c[1]] = b[c[2]] /\ b[c[2]] \notin pop}

\* k = j2len[j] when the outer loop is at i: the length of the run of
\* matches that ends in (i, j)
RunLengths(a, b, pop, alo, blo, cells) ==
    [c \in cells |-> BackRun(a, b, pop, c[1], c[2], alo, blo)]

\* the earliest end in a, then in b, among the ends of the longest runs
FirstEnd(ends) ==
    LET iend == SetMin({c[1] : c \in ends})
    IN  <<iend, SetMin({c[2] : c \in {d \in ends : d[1] = iend}})>>

BlockEndingAt(e, size) ==
    [i |-> e[1] - size + 1, j |-> e[2] - size + 1, size |-> size]

\* besti, bestj, bestsize after the main loop
LongestOfSize(k, cells, size, alo, blo) ==
    IF size = 0 THEN [i |-> alo, j |-> blo, size |-> 0]
    ELSE BlockEndingAt(FirstEnd({c \in cells : k[c] = size}), size)

LongestRun(k, cells, alo, blo) ==
    LongestOfSize(k, cells, SetMax({0} \cup {k[c] : c \in cells}), alo, blo)

Longest(a, b, pop, alo, blo, cells) ==
    LongestRun(RunLengths(a, b, pop, alo, blo, cells), cells, alo, blo)

\* the block m extended over equal neighbours, back steps before it and as
\* far as they go after it
Extended(a, b, ahi, bhi, m, back) ==
    [i |-> m.i - back, j |-> m.j - back,
     size |-> m.size + back + ForwardRun(a, b, m.i + m.size, m.j + m.size, ahi, bhi)]

ExtendedBothWays(a, b, alo, ahi, blo, bhi, m) ==
    Extended(a, b, ahi, bhi, m,
             IF m.i > alo /\ m.j > blo
             THEN BackRun(a, b, {}, m.i - 1, m.j - 1, alo, blo) ELSE 0)

\* find_longest_match(alo, ahi, blo, bhi) with 1-based alo, blo and exclusive
\* ahi, bhi: the longest block, the one starting earliest in a and then
\* earliest in b, extended over equal neighbours on both sides
find_longest_match(a, b, pop, alo, ahi, blo, bhi) ==
    ExtendedBothWays(a, b, alo, ahi, blo, bhi,
        Longest(a, b, pop, alo, blo, MatchCells(a, b, pop, alo, ahi, blo, bhi)))

\* the recursion of get_matching_blocks, the blocks in increasing order
RECURSIVE MatchingBlocksIn(_, _, _, _, _, _, _)

\* the blocks left of the longest block m, m, the blocks right of it
BlocksAround(a, b, pop, alo, ahi, blo, bhi, m) ==
    IF m.size = 0 THEN <<>>
    ELSE (IF alo < m.i /\ blo < m.j
          THEN MatchingBlocksIn(a, b, pop, alo, m.i, blo, m.j) ELSE <<>>)
         \o <<m>> \o
         (IF m.i + m.size < ahi /\ m.j + m.size < bhi
          THEN MatchingBlocksIn(a, b, pop, m.i + m.size, ahi, m.j + m.size, bhi)
          ELSE <<>>)

MatchingBlocksIn(a, b, pop, alo, ahi, blo, bhi) ==
    BlocksAround(a, b, pop, alo, ahi, blo, bhi,
                 find_longest_match(a, b, pop, alo, ahi, blo, bhi))

\* adjacent blocks are collapsed into one
RECURSIVE CollapseBlocks(_, _)
CollapseBlocks(done, todo) ==
    IF todo = <<>> THEN done
    ELSE LET m == Head(todo)
             n == Len(done)
         IN  IF n > 0 /\ done[n].i + done[n].size = m.i /\ done[n].j + done[n].size = m.j
             THEN CollapseBlocks([done EXCEPT ![n].size = @ + m.size], Tail(todo))
             ELSE CollapseBlocks(Append(done, m), Tail(todo))

\* get_matching_blocks(), ending with the sentinel (len(a), len(b), 0)
get_matching_blocks(a, b, autojunk) ==
    Append(CollapseBlocks(<<>>, MatchingBlocksIn(a, b, Popular(b, autojunk),
                                                  1, Len(a) + 1, 1, Len(b) + 1)),
           [i |-> Len(a) + 1, j |-> Len(b) + 1, size |-> 0])

\* get_opcodes(): [tag, i1, i2, j1, j2] with 1-based i1, j1 and exclusive i2, j2
OpcodesOf(blocks) ==
    LET step[n \in 0..Len(blocks)] ==
            IF n = 0 THEN [i |-> 1, j |-> 1, ops |-> <<>>]
            ELSE LET p == step[n - 1]
                     m == blocks[n]
                     tag == IF p.i < m.i /\ p.j < m.j THEN "replace"
                            ELSE IF p.i < m.i THEN "delete"
                            ELSE IF p.j < m.j THEN "insert"
                            ELSE ""
                     gap == IF tag = "" THEN <<>>
                            ELSE << [tag |-> tag, i1 |-> p.i, i2 |-> m.i,
                                     j1 |-> p.j, j2 |-> m.j] >>
                     eq == IF m.size = 0 THEN <<>>
                           ELSE << [tag |-> "equal", i1 |-> m.i, i2 |-> m.i + m.size,
                                    j1 |-> m.j, j2 |-> m.j + m.size] >>
                 IN  [i |-> m.i + m.size, j |-> m.j + m.size,
                      ops |-> p.ops \o gap \o eq]
    IN  step[Len(blocks)].ops

get_opcodes(a, b, autojunk) == OpcodesOf(get_matching_blocks(a, b, autojunk))

-----------------------------------------------------------------------------
(* Tokens, diff_magnitude, diff_words_preserve_ws                          *)

\* "".join(parts[lo..hi])
RECURSIVE ConcatRange(_, _, _)
ConcatRange(parts, lo, hi) ==
    IF lo > hi THEN <<>>
    ELSE IF lo = hi THEN parts[lo]
    ELSE LET mid == (lo + hi) \div 2
         IN  ConcatRange(parts, lo, mid) \o ConcatRange(parts, mid + 1, hi)

ConcatAll(parts) == ConcatRange(parts, 1, Len(parts))

\* _tokenize_for_ratio: the words of s, after strip and whitespace collapse
_tokenize_for_ratio(s) ==
    LET starts == SelectSeq(Indices(s),
                    LAMBDA i : s[i] \notin Whitespace
                               /\ (i = 1 \/ s[i - 1] \in Whitespace))
        ends == SelectSeq(Indices(s),
                    LAMBDA i : s[i] \notin Whitespace
                               /\ (i = Len(s) \/ s[i + 1] \in Whitespace))
    IN  [k \in 1..Len(starts) |-> SubSeq(s, starts[k], ends[k])]

\* TOKEN_RE.findall: alternating runs of non-whitespace and of whitespace
TokensWithWs(s) ==
    LET starts == SelectSeq(Indices(s),
                    LAMBDA i : i = 1 \/ ((s[i] \in Whitespace) # (s[i - 1] \in Whitespace)))
    IN  [k \in 1..Len(starts) |->
            Slice(s, starts[k], IF k < Len(starts) THEN starts[k + 1] ELSE Len(s) + 1)]

\* sum over the opcodes of: "equal", the a-tokens of the equal ones; "total",
\* max(i2 - i1, j2 - j1); "both", (i2 - i1) + (j2 - j1) of the others
RECURSIVE OpcodeSum(_, _, _)
OpcodeSum(ops, n, what) ==
    IF n = 0 THEN 0
    ELSE LET o == ops[n]
         IN  OpcodeSum(ops, n - 1, what)
             + (CASE what = "equal" -> (IF o.tag = "equal" THEN o.i2 - o.i1 ELSE 0)
                  [] what = "total" -> Max2(o.i2 - o.i1, o.j2 - o.j1)
                  [] what = "both" -> (IF o.tag = "equal" THEN 0
                                       ELSE (o.i2 - o.i1) + (o.j2 - o.j1)))

\* as MagnitudeOf, every token counted as changed
MagnitudeOfCountingAll(equal, total) ==
    [changed |-> total,
     ratio |-> IF total # 0 THEN <<equal, total>> ELSE <<1, 1>>]

\* changed = total - equal; equal_ratio = (equal / total) if total else 1.0
MagnitudeOf(equal, total) ==
    [changed |-> total - equal,
     ratio |-> IF total # 0 THEN <<equal, total>> ELSE <<1, 1>>]

OpcodeMagnitude(ops) ==
    MagnitudeOf(OpcodeSum(ops, Len(ops), "equal"), OpcodeSum(ops, Len(ops), "total"))

\* diff_magnitude: changed_token_count and equal_ratio (as <<num, den>>)
diff_magnitude(a, b) ==
    OpcodeMagnitude(get_opcodes(_tokenize_for_ratio(a), _tokenize_for_ratio(b), FALSE))

\* html.escape(s, quote=False)
EscChar(c) ==
    IF c = "&" THEN Chars("&amp;")
    ELSE IF c = "<" THEN Chars("&lt;")
    ELSE IF c = ">" THEN Chars("&gt;")
    ELSE <<c>>

esc(s) == ConcatAll([i \in 1..Len(s) |-> EscChar(s[i])])

Del(t) == Chars("<del>") \o esc(t) \o Chars("</del>")

Ins(t) == Chars("<ins>") \o esc(t) \o Chars("</ins>")

\* as SpanOf, a replaced run losing its inserted side
SpanOfDeletedOnly(tag, A, B) ==
    IF tag = "equal" THEN esc(A)
    ELSE IF tag = "insert" THEN Ins(B)
    ELSE Del(A)

\* what one opcode appends to out, A and B being the joined tokens
SpanOf(tag, A, B) ==
    IF tag = "equal" THEN esc(A)
    ELSE IF tag = "delete" THEN Del(A)
    ELSE IF tag = "insert" THEN Ins(B)
    ELSE Del(A) \o Ins(B)

RedlineOf(a_tok, b_tok, ops) ==
    ConcatAll([n \in 1..Len(ops) |->
        SpanOf(ops[n].tag, ConcatRange(a_tok, ops[n].i1, ops[n].i2 - 1),
               ConcatRange(b_tok, ops[n].j1, ops[n].j2 - 1))])

TokenRedline(a_tok, b_tok) == RedlineOf(a_tok, b_tok, get_opcodes(a_tok, b_tok, TRUE))

diff_words_preserve_ws(a, b) == TokenRedline(TokensWithWs(a), TokensWithWs(b))

-----------------------------------------------------------------------------
(* APPROPS_HINTS, categorize_change                                        *)

\* the literal w at index i, with \b before it (lb) and after it (rb)
WordAt(t, i, w, lb, rb) ==
    /\ LitAt(t, i, Chars(w))
    /\ lb => Boundary(t, i)
    /\ rb => Boundary(t, i + Len(w))

\* \$\s?\d
DollarAt(t, i) ==
    /\ t[i] = "$"
    /\ \/ (i + 1 <= Len(t) /\ t[i + 1] \in Digits)
       \/ (i + 2 <= Len(t) /\ t[i + 1] \in Whitespace /\ t[i + 2] \in Digits)

\* one alternative of APPROPS_HINTS matches the lower-cased text at index i
HintAt(t, i) ==
    \/ DollarAt(t, i)
    \/ \E w \in {"appropriate", "appropriation", "appropriated", "appropriations",
                 "authorized to be appropriated", "transfer", "obligation",
                 "offset", "grant", "fund", "funds", "funding",
                 "remain available"} : WordAt(t, i, w, TRUE, TRUE)
    \/ WordAt(t, i, "resciss", TRUE, FALSE)

\* bool(APPROPS_HINTS.search(text))
IsApprop(text) == LET t == Lower(text) IN \E i \in 1..Len(t) : HintAt(t, i)

FundingAt(t, i) ==
    \/ DollarAt(t, i)
    \/ WordAt(t, i, "appropriat", TRUE, FALSE)
    \/ WordAt(t, i, "authorized to be appropriated", TRUE, FALSE)
    \/ WordAt(t, i, "grant", TRUE, TRUE)
    \/ WordAt(t, i, "fund", TRUE, FALSE)

AuthorityAt(t, i) ==
    \/ WordAt(t, i, "shall", TRUE, TRUE)
    \/ WordAt(t, i, "may not", TRUE, TRUE)
    \/ WordAt(t, i, "penalt", TRUE, FALSE)

ReportingAt(t, i) ==
    \/ WordAt(t, i, "not later than", FALSE, FALSE)
    \/ WordAt(t, i, "report to congress", TRUE, FALSE)
    \/ WordAt(t, i, "gao", TRUE, TRUE)
    \/ WordAt(t, i, "reporting requirement", TRUE, FALSE)

\* sorted(tags)
categorize_change(before, after) ==
    LET t == Lower(before \o <<" ">> \o after)
    IN  (IF \E i \in 1..Len(t) : AuthorityAt(t, i) THEN <<"Authority">> ELSE <<>>)
        \o (IF \E i \in 1..Len(t) : FundingAt(t, i) THEN <<"Funding">> ELSE <<>>)
        \o (IF \E i \in 1..Len(t) : ReportingAt(t, i) THEN <<"Reporting">> ELSE <<>>)

-----------------------------------------------------------------------------
(* summarize_changes                                                       *)

MIN_DIFF_TOKENS == 80

\* 0.777
MIN_EQUAL_RATIO == <<777, 1000>>

\* the characters of section ids, in code point order
IdAlphabet == Chars("-0123456789ABCDEFGHIJKLMNOPQRSTUVWXYZabcdefghijklmnopqrstuvwxyz")

CodeRank(c) == CHOOSE i \in 1..Len(IdAlphabet) : IdAlphabet[i] = c

\* x < y on str
StrLess(x, y) ==
    \E k \in 1..(Min2(Len(x), Len(y)) + 1) :
        /\ \A t \in 1..(k - 1) : x[t] = y[t]
        /\ \/ (k > Len(x) /\ k <= Len(y))
           \/ (k <= Len(x) /\ k <= Len(y) /\ CodeRank(x[k]) < CodeRank(y[k]))

\* _sort_key(x) < _sort_key(y), the key being (len(x), x)
SortKeyLess(x, y) == Len(x) < Len(y) \/ (Len(x) = Len(y) /\ StrLess(x, y))

\* the ids of the newer version only
AllIdsNewOnly(old, new) ==
    LET ids == Keys(new)
    IN  [k \in 1..Cardinality(ids) |->
            CHOOSE x \in ids : Cardinality({y \in ids : SortKeyLess(y, x)}) = k - 1]

\* sorted(set(old_by_id) | set(new_by_id), key=_sort_key)
AllIds(old, new) ==
    LET ids == Keys(old) \cup Keys(new)
    IN  [k \in 1..Cardinality(ids) |->
            CHOOSE x \in ids : Cardinality({y \in ids : SortKeyLess(y, x)}) = k - 1]

\* the comparison of two ratios turned round
RatioLE(x, r) == x[1] * r[2] <= r[1] * x[2]

\* x >= r for two ratios <<num, den>>
RatioGE(x, r) == x[1] * r[2] >= r[1] * x[2]

\* the magnitude guard without its token count
IsNoiseRatioOnly(m, d, r) == RatioGE(m.ratio, r)

\* the magnitude guard with "and" for "or"
IsNoiseBoth(m, d, r) == m.changed < d /\ RatioGE(m.ratio, r)

\* changed_tokens < MIN_DIFF_TOKENS or ratio >= MIN_EQUAL_RATIO
IsNoise(m, d, r) == m.changed < d \/ RatioGE(m.ratio, r)

\* stats[key] += 2
BumpTwice(st, key) == [st EXCEPT ![key] = @ + 2]

\* stats[key] += 1
Bump(st, key) == [st EXCEPT ![key] = @ + 1]

\* new["title"] or old["title"]
TitleOf(old, new) == IF new.title # <<>> THEN new.title ELSE old.title

RemovedRecord(sid, old) ==
    [sec_id |-> sid, title |-> old.title, status |-> "Removed", tags |-> <<>>,
     is_approp |-> IsApprop(old.body),
     redline |-> Chars("<del>Section removed in newer version.</del>")]

\* as AddedRecord, the hint searched in the title
AddedRecordHintFromTitle(sid, new) ==
    [sec_id |-> sid, title |-> new.title, status |-> "Added",
     tags |-> categorize_change(<<>>, new.body),
     is_approp |-> IsApprop(new.title),
     redline |-> Ins(new.body)]

AddedRecord(sid, new) ==
    [sec_id |-> sid, title |-> new.title, status |-> "Added",
     tags |-> categorize_change(<<>>, new.body),
     is_approp |-> IsApprop(new.body),
     redline |-> Ins(new.body)]

ModifiedRecord(sid, old, new, A, B) ==
    [sec_id |-> sid, title |-> TitleOf(old, new), status |-> "Modified",
     tags |-> categorize_change(A, B),
     is_approp |-> IsApprop(A \o <<" ">> \o B),
     redline |-> diff_words_preserve_ws(A, B)]

UnchangedRecord(sid, old, new, body) ==
    [sec_id |-> sid, title |-> TitleOf(old, new), body |-> body]

\* the loop body for an id of both versions; A and B are the stripped bodies
\* as CompareBoth, without the shortcut for identical bodies
CompareBothWithoutShortcut(acc, sid, old, new, A, B, d, r) ==
    IF A # B /\ IsNoise(diff_magnitude(A, B), d, r)
    THEN [acc EXCEPT !.stats = Bump(@, "unchanged"),
                     !.unchanged = Append(@, UnchangedRecord(sid, old, new, B))]
    ELSE [acc EXCEPT !.stats = Bump(@, "modified"),
                     !.changes = Append(@, ModifiedRecord(sid, old, new, A, B))]

CompareBoth(acc, sid, old, new, A, B, d, r) ==
    IF A = B
    THEN [acc EXCEPT !.stats = Bump(@, "unchanged"),
                     !.unchanged = Append(@, UnchangedRecord(sid, old, new, A))]
    ELSE IF IsNoise(diff_magnitude(A, B), d, r)
    THEN [acc EXCEPT !.stats = Bump(@, "unchanged"),
                     !.unchanged = Append(@, UnchangedRecord(sid, old, new, B))]
    ELSE [acc EXCEPT !.stats = Bump(@, "modified"),
                     !.changes = Append(@, ModifiedRecord(sid, old, new, A, B))]

\* one pass of the loop body for sid, from the accumulated acc
CompareSection(acc, sid, old_ix, new_ix, d, r) ==
    IF sid \in Keys(old_ix) /\ sid \notin Keys(new_ix)
    THEN [acc EXCEPT !.stats = Bump(@, "removed"),
                     !.changes = Append(@, RemovedRecord(sid, Get(old_ix, sid)))]
    ELSE IF sid \in Keys(new_ix) /\ sid \notin Keys(old_ix)
    THEN [acc EXCEPT !.stats = Bump(@, "added"),
                     !.changes = Append(@, AddedRecord(sid, Get(new_ix, sid)))]
    ELSE CompareBoth(acc, sid, Get(old_ix, sid), Get(new_ix, sid),
                     Strip(Get(old_ix, sid).body), Strip(Get(new_ix, sid).body), d, r)

\* (not x["is_approp"], x["sec_id"]) < (not y["is_approp"], y["sec_id"])
ChangeKeyLess(x, y) ==
    \/ x.is_approp /\ ~ y.is_approp
    \/ x.is_approp = y.is_approp /\ StrLess(x.sec_id, y.sec_id)

\* changes.sort(key=lambda x: (not x["is_approp"], x["sec_id"])); the sort is
\* stable, so records with equal keys keep their order
SortChanges(recs) ==
    LET n == Len(recs)
        before(i, j) == ChangeKeyLess(recs[i], recs[j])
                        \/ (~ ChangeKeyLess(recs[j], recs[i]) /\ i < j)
    IN  [k \in 1..n |->
            recs[CHOOSE i \in 1..n : Cardinality({j \in 1..n : before(j, i)}) = k - 1]]

\* changes, unchanged and stats before the loop
NothingYet ==
    [changes |-> <<>>, unchanged |-> <<>>,
     stats |-> [added |-> 0, removed |-> 0, modified |-> 0, unchanged |-> 0]]

\* the loop over the first k ids of all_ids
RECURSIVE CompareAll(_, _, _, _, _, _)
CompareAll(all_ids, k, old_ix, new_ix, d, r) ==
    IF k = 0 THEN NothingYet
    ELSE CompareSection(CompareAll(all_ids, k - 1, old_ix, new_ix, d, r),
                        all_ids[k], old_ix, new_ix, d, r)

\* the final sort and the returned triple
Returned(fin) ==
    [changes |-> SortChanges(fin.changes), stats |-> fin.stats,
     unchanged |-> fin.unchanged]

CompareIds(all_ids, old_ix, new_ix, d, r) ==
    Returned(CompareAll(all_ids, Len(all_ids), old_ix, new_ix, d, r))

\* summarize_changes under the thresholds d (MIN_DIFF_TOKENS) and r
\* (MIN_EQUAL_RATIO): [changes, stats, unchanged]
summarize_changes(old_ix, new_ix, d, r) ==
    CompareIds(AllIds(old_ix, new_ix), old_ix, new_ix, d, r)

-----------------------------------------------------------------------------
(* explorer.py: normalize_for_diff, is_cosmetic_change, diff_magnitude,    *)
(* build_renumber_map, summarize_changes. Its sanitize_text, TOKEN_RE,     *)
(* diff_words_preserve_ws, APPROPS_HINTS and categorize_change are those   *)
(* of app.py.                                                              *)

explorer_MIN_DIFF_TOKENS == 50

\* 0.677
explorer_MIN_EQUAL_RATIO == <<677, 1000>>

\* the chain of str.replace of normalize_for_diff, on one character
Plainer(c) ==
    CASE c \in {LDQUO, RDQUO} -> <<"\"">>
      [] c \in {RSQUO, LSQUO} -> <<"'">>
      [] c \in {EMDASH, ENDASH} -> <<"-">>
      [] c = MIDDOT -> <<"*">>
      [] c = SECTSIGN -> Chars("Section ")
      [] c \in {THINSP, NNBSP} -> <<" ">>
      [] OTHER -> <<c>>

\* the chain of str.replace on a whole string
Plain7Bit(s) == ConcatAll([i \in 1..Len(s) |-> Plainer(s[i])])

normalize_for_diff(s0) ==
    Strip(ReSub(ReSub(ReSub(Plain7Bit(sanitize_text(s0)), "grouped"), "blanks"),
                "ws_punct"))

\* re.sub(r'[^\w$]+', '', s)
OnlyWordsAndDollars(s) == SelectSeq(s, LAMBDA c : c \in WordChars \cup {"$"})

is_cosmetic_change(a, b) ==
    OnlyWordsAndDollars(Lower(normalize_for_diff(a)))
        = OnlyWordsAndDollars(Lower(normalize_for_diff(b)))

\* SequenceMatcher.ratio(): 2.0 * matches / (len(a) + len(b)), 1.0 for two
\* empty sequences; as <<num, den>>
Ratio(a, b, ops) ==
    IF Len(a) + Len(b) = 0 THEN <<1, 1>>
    ELSE <<2 * OpcodeSum(ops, Len(ops), "equal"), Len(a) + Len(b)>>

ChangedAndRatio(a_tok, b_tok, ops) ==
    [changed |-> OpcodeSum(ops, Len(ops), "both"), ratio |-> Ratio(a_tok, b_tok, ops)]

TokenMagnitude(a_tok, b_tok) ==
    ChangedAndRatio(a_tok, b_tok, get_opcodes(a_tok, b_tok, TRUE))

\* diff_magnitude of explorer.py: changed_tokens and ratio (as <<num, den>>)
explorer_diff_magnitude(a, b) ==
    TokenMagnitude(TokensWithWs(normalize_for_diff(a)),
                   TokensWithWs(normalize_for_diff(b)))

\* x > y for two ratios
RatioGT(x, y) == x[1] * y[2] > y[1] * x[2]

\* SequenceMatcher(None, a, b).ratio() of two titles
TitleRatio(a, b) == Ratio(a, b, get_opcodes(a, b, TRUE))

\* the positions in new_ix of the sections not used yet
Unused(new_ix, used) == {n \in 1..Len(new_ix) : new_ix[n].sec_id \notin used}

TitleRatios(o, new_ix, cand) ==
    [n \in cand |-> TitleRatio(o.title, new_ix[n].title)]

\* the first candidate whose ratio r[n] is the best one and above 0.0, or 0
FirstBest(cand, r) ==
    LET tops == {n \in cand : /\ RatioGT(r[n], <<0, 1>>)
                              /\ \A m \in cand : ~ RatioGT(r[m], r[n])}
    IN  IF tops = {} THEN 0 ELSE SetMin(tops)

\* the inner loop of build_renumber_map: the position in new_ix of best_id,
\* or 0 for None
BestAmong(o, new_ix, cand) == FirstBest(cand, TitleRatios(o, new_ix, cand))

BestMatch(o, new_ix, used) == BestAmong(o, new_ix, Unused(new_ix, used))

\* as MapIfClose, with 0.80 for 0.90
MapIfRoughlyClose(mapping, o, new_ix, best) ==
    IF best # 0 /\ RatioGE(TitleRatio(o.title, new_ix[best].title), <<80, 100>>)
    THEN Append(mapping, <<o.sec_id, new_ix[best].sec_id>>)
    ELSE mapping

\* if best >= 0.90: mapping[o_id] = best_id
MapIfClose(mapping, o, new_ix, best) ==
    IF best # 0 /\ RatioGE(TitleRatio(o.title, new_ix[best].title), <<90, 100>>)
    THEN Append(mapping, <<o.sec_id, new_ix[best].sec_id>>)
    ELSE mapping

\* one pass of the outer loop, for the old section o
RenumberStep(mapping, o, new_ix) ==
    MapIfClose(mapping, o, new_ix,
               BestMatch(o, new_ix, {mapping[p][2] : p \in 1..Len(mapping)}))

\* the outer loop over the first k old sections
RECURSIVE RenumberLoop(_, _, _)
RenumberLoop(old_ix, new_ix, k) ==
    IF k = 0 THEN <<>>
    ELSE RenumberStep(RenumberLoop(old_ix, new_ix, k - 1), old_ix[k], new_ix)

\* as build_renumber_map, giving up only above half of the smaller side
build_renumber_map_above_half(old_ix, new_ix) ==
    IF 2 * Cardinality(Keys(old_ix) \cap Keys(new_ix)) > Min2(Len(old_ix), Len(new_ix))
    THEN <<>>
    ELSE RenumberLoop(old_ix, new_ix, Len(old_ix))

\* build_renumber_map: the mapping as the sequence of its <<old id, new id>>
\* items in insertion order
build_renumber_map(old_ix, new_ix) ==
    IF 2 * Cardinality(Keys(old_ix) \cap Keys(new_ix)) >= Min2(Len(old_ix), Len(new_ix))
    THEN <<>>
    ELSE RenumberLoop(old_ix, new_ix, Len(old_ix))

\* next((k for k, v in remap.items() if v == sid), sid)
RemapKey(remap, sid) ==
    LET hits == {p \in 1..Len(remap) : remap[p][2] = sid}
    IN  IF hits = {} THEN sid ELSE remap[SetMin(hits)][1]

\* the re-keyed new_by_id. The key of an entry is held in its sec_id field;
\* summarize_changes reads only the title and the body of a value.
Rekey(new_ix, remap) ==
    IF remap = <<>> THEN new_ix
    ELSE index_by_id([n \in 1..Len(new_ix) |->
                         [new_ix[n] EXCEPT !.sec_id = RemapKey(remap, @)]])

\* the loop body of explorer.py for an id of both versions
explorer_CompareBoth(acc, sid, old, new, A_raw, B_raw, d, r) ==
    IF A_raw = B_raw
    THEN [acc EXCEPT !.stats = Bump(@, "unchanged"),
                     !.unchanged = Append(@, UnchangedRecord(sid, old, new, B_raw))]
    ELSE IF is_cosmetic_change(A_raw, B_raw)
    THEN [acc EXCEPT !.stats = Bump(@, "unchanged"),
                     !.unchanged = Append(@, UnchangedRecord(sid, old, new,
                                              normalize_for_diff(B_raw)))]
    ELSE IF IsNoise(explorer_diff_magnitude(A_raw, B_raw), d, r)
    THEN [acc EXCEPT !.stats = Bump(@, "unchanged"),
                     !.unchanged = Append(@, UnchangedRecord(sid, old, new,
                                              normalize_for_diff(B_raw)))]
    ELSE [acc EXCEPT !.stats = Bump(@, "modified"),
                     !.changes = Append(@, ModifiedRecord(sid, old, new,
                                            normalize_for_diff(A_raw),
                                            normalize_for_diff(B_raw)))]

\* one pass of the loop body of explorer.py for sid
explorer_CompareSection(acc, sid, old_ix, new_ix, d, r) ==
    IF sid \in Keys(old_ix) /\ sid \notin Keys(new_ix)
    THEN [acc EXCEPT !.stats = Bump(@, "removed"),
                     !.changes = Append(@, RemovedRecord(sid, Get(old_ix, sid)))]
    ELSE IF sid \in Keys(new_ix) /\ sid \notin Keys(old_ix)
    THEN [acc EXCEPT !.stats = Bump(@, "added"),
                     !.changes = Append(@, AddedRecord(sid, Get(new_ix, sid)))]
    ELSE explorer_CompareBoth(acc, sid, Get(old_ix, sid), Get(new_ix, sid),
                              Strip(Get(old_ix, sid).body), Strip(Get(new_ix, sid).body),
                              d, r)

RECURSIVE explorer_CompareAll(_, _, _, _, _, _)
explorer_CompareAll(all_ids, k, old_ix, new_ix, d, r) ==
    IF k = 0 THEN NothingYet
    ELSE explorer_CompareSection(explorer_CompareAll(all_ids, k - 1, old_ix, new_ix, d, r),
                                 all_ids[k], old_ix, new_ix, d, r)

explorer_CompareIds(all_ids, old_ix, new_ix, d, r) ==
    Returned(explorer_CompareAll(all_ids, Len(all_ids), old_ix, new_ix, d, r))

\* the loop and the sort, on the re-keyed new index
SummarizeRekeyed(old_ix, new_ix, d, r) ==
    explorer_CompareIds(AllIds(old_ix, new_ix), old_ix, new_ix, d, r)

\* summarize_changes of explorer.py under the thresholds d and r
explorer_summarize_changes(old_ix, new_ix0, d, r) ==
    SummarizeRekeyed(old_ix, Rekey(new_ix0, build_renumber_map(old_ix, new_ix0)), d, r)

-----------------------------------------------------------------------------
(* Inputs                                                                  *)

\* w repeated n times
Repeat(w, n) == [i \in 1..(n * Len(w)) |-> w[((i - 1) % Len(w)) + 1]]

\* all concatenations of at most n elements of P
RECURSIVE Concats(_, _)
Concats(P, n) ==
    IF n = 0 THEN {<<>>}
    ELSE LET Q == Concats(P, n - 1) IN Q \cup {q \o p : q \in Q, p \in P}

MaxLen == 3

SanAlphabet == {" ", "\t", "\n", "\r", NBSP, ".", ",", "(", ")", "[", "]", "a"}

SanInputs == Concats({<<c>> : c \in SanAlphabet}, MaxLen)

MaxPasses == 2

MaxPieces == 3

SplitPieces ==
    {Chars("SEC. 1."), Chars("SEC. 2:"), Chars("Sec. 10a "), Chars("SEC."),
     Chars("7"), <<"\n">>, <<" ">>, <<"-">>, Chars("x."),
     Chars("DIVISION A"), Chars("TITLE IV"), Chars("SUBTITLE B")}

\* texts with as many SEC. headers as the segmenter accepts, and one more
ManyHeaders ==
    {pre \o Repeat(Chars("SEC. 1.\n"), n) :
        pre \in {<<>>, Chars("DIVISION A\n\n")},
        n \in {MAX_SEC_MATCHES, MAX_SEC_MATCHES + 1}}

SplitInputs == Concats(SplitPieces, MaxPieces) \cup ManyHeaders

\* section bodies: two short ones without and two with a dollar amount
Plain == Chars("The Secretary shall report.")

FiveMillion == Chars("There is appropriated $5,000,000.")

FiftyMillion == Chars("There is appropriated $50,000,000.")

\* n times the word w, each followed by a space
WordRun(w, n) == Repeat(w \o <<" ">>, n)

\* the words "1 2 ... n ", all different, each followed by a space
Counting(n) == ConcatAll([k \in 1..n |-> Decimal(k) \o <<" ">>])

\* the fewest common words that make the equal ratio of a pair reach
\* MIN_EQUAL_RATIO when MIN_DIFF_TOKENS further words are replaced
EnoughCommon ==
    SetMin({c \in 1..(10 * MIN_DIFF_TOKENS) :
              RatioGE(<<c, c + MIN_DIFF_TOKENS>>, MIN_EQUAL_RATIO)})

MaxSecs == 3

SecIds == <<Chars("2"), Chars("10"), Chars("1"), Chars("3a")>>

OldTitle == Chars("Old title")

NewTitle == Chars("New title")

Section(id, title, body) == [sec_id |-> id, title |-> title, body |-> body]

\* what one id is in the two versions: absent (<<>>) or a body (<<body>>)
Absent == <<>>

\* <<old, new>> for one id: in neither version, added, removed, the same in
\* both, one amount changed
LightCases ==
    {<<Absent, Absent>>, <<Absent, <<Plain>> >>, <<Absent, <<FiftyMillion>> >>,
     << <<Plain>>, Absent>>, << <<FiveMillion>>, Absent>>,
     << <<Plain>>, <<Plain>> >>, << <<FiveMillion>>, <<FiftyMillion>> >>}

\* the index of the ids that are present, from pick[k] = <<>> or <<body>>
IndexOf(pick, title) ==
    LET present == SelectSeq(Indices(pick), LAMBDA k : pick[k] # Absent)
    IN  [n \in 1..Len(present) |->
            Section(SecIds[present[n]], title, pick[present[n]][1])]

LightInputs ==
    {<<IndexOf([k \in 1..MaxSecs |-> c[k][1]], OldTitle),
       IndexOf([k \in 1..MaxSecs |-> c[k][2]], NewTitle)>> :
        c \in [1..MaxSecs -> LightCases]}

\* pairs of long bodies on either side of the two thresholds of app.py
LongPairs ==
    {<<Strip(WordRun(Chars("a"), n)), Plain>> :
        n \in {MIN_DIFF_TOKENS - 1, MIN_DIFF_TOKENS}}
    \cup
    {<<Strip(Counting(c) \o WordRun(Chars("a"), MIN_DIFF_TOKENS)),
       Strip(Counting(c) \o WordRun(Chars("fund"), MIN_DIFF_TOKENS))>> :
        c \in {EnoughCommon - 1, EnoughCommon}}

\* four ids: one added, one with the pair p of bodies, one removed, one the
\* same in both versions
AroundPair(p) ==
    <<IndexOf(<<Absent, <<p[1]>>, <<Plain>>, <<Plain>> >>, OldTitle),
      IndexOf(<< <<Plain>>, <<p[2]>>, Absent, <<Plain>> >>, NewTitle)>>

HeavyInputs == {AroundPair(p) : p \in LongPairs}

CompareInputs == LightInputs \cup HeavyInputs

\* explorer.py counts the words and the spaces of both sides: this many
\* replaced words make explorer_MIN_DIFF_TOKENS changed tokens
HalfDiff == explorer_MIN_DIFF_TOKENS \div 2

\* the fewest common words that make the ratio of a pair reach
\* explorer_MIN_EQUAL_RATIO when HalfDiff further words are replaced
explorer_EnoughCommon ==
    SetMin({c \in 1..(10 * HalfDiff) :
              RatioGE(<<2 * c + HalfDiff - 1, 2 * c + 2 * HalfDiff - 1>>,
                      explorer_MIN_EQUAL_RATIO)})

\* pairs of bodies on either side of the two thresholds of explorer.py, and
\* a pair that differs in punctuation only
explorer_Pairs ==
    {<<Strip(WordRun(Chars("a"), n)), Strip(WordRun(Chars("fund"), n))>> :
        n \in {HalfDiff - 1, HalfDiff}}
    \cup
    {<<Strip(Counting(c) \o WordRun(Chars("a"), HalfDiff)),
       Strip(Counting(c) \o WordRun(Chars("fund"), HalfDiff))>> :
        c \in {explorer_EnoughCommon - 1, explorer_EnoughCommon}}
    \cup
    {<<Strip(WordRun(Chars("a,"), HalfDiff)), Strip(WordRun(Chars("a;"), HalfDiff))>>}

SameTitle == Chars("Short title")

\* the light cases with one title for every section, so that sections of
\* disjoint id sets are taken for renumbered ones
explorer_Inputs ==
    {<<IndexOf([k \in 1..MaxSecs |-> c[k][1]], SameTitle),
       IndexOf([k \in 1..MaxSecs |-> c[k][2]], SameTitle)>> :
        c \in [1..MaxSecs -> LightCases]}
    \cup {AroundPair(p) : p \in explorer_Pairs}

\* short bodies for the thresholds in TuneDiffs and TuneRatios
TunePairs ==
    {<<Chars("a b c d"), Chars(w)>> :
        w \in {"a b c d", "a b c x", "a x y d", "x y z w"}}
    \cup
    {<<Chars("a b c d e f g h"), Chars(w)>> :
        w \in {"a b c d e f g x", "a b x y z w g h"}}

TuneInputs == {AroundPair(p) : p \in TunePairs}

MaxTuneDiff == 3

TuneDiffs == 1..MaxTuneDiff

TuneRatios == {<<1, 4>>, <<1, 2>>, <<3, 4>>, <<1, 1>>}

NoSections == <<>>

NoIndex == <<>>

NoStats == [added |-> 0, removed |-> 0, modified |-> 0, unchanged |-> 0]

NoMagnitude == [changed |-> 0, ratio |-> <<1, 1>>]

\* nothing has been handed to the diff functions
NoDiff ==
    /\ old_text = <<>>
    /\ new_text = <<>>
    /\ redline = <<>>
    /\ opcodes = <<>>
    /\ magnitude = NoMagnitude
    /\ tags = <<>>

\* CACHE: Dict[str, Tuple[float, str]] = {}
EmptyCache == [k \in {} |-> 0]

NoResponse ==
    [seq |-> 0, path |-> "", preset |-> "", nocache |-> FALSE, status |-> 0,
     source |-> "", body |-> ""]

\* the server has started and has handled no request
NoWeb ==
    /\ CACHE = EmptyCache
    /\ now = 0
    /\ response = NoResponse

\* fetch_version has not been called
NoFetch ==
    /\ mirrors = <<>>
    /\ tried = <<>>
    /\ last = "None"

-----------------------------------------------------------------------------
(* sanitize_text applied repeatedly to one text                            *)

InitSanitize ==
    /\ pc = "raw"
    /\ raw \in SanInputs
    /\ passes = 0
    /\ sections = NoSections
    /\ old_by_id = NoIndex
    /\ new_by_id = NoIndex
    /\ changes = <<>>
    /\ stats = NoStats
    /\ NoDiff
    /\ renumber_map = <<>>
    /\ NoWeb
    /\ NoFetch
    /\ unchanged = <<>>
    /\ min_diff = 0
    /\ min_ratio = <<0, 1>>
    /\ program = "app"

Sanitize ==
    /\ pc \in {"raw", "clean"}
    /\ passes < MaxPasses
    /\ raw' = sanitize_text(raw)
    /\ passes' = passes + 1
    /\ pc' = "clean"
    /\ UNCHANGED <<sections, old_by_id, new_by_id, changes, stats, unchanged,
                   min_diff, min_ratio, program>>
    /\ UNCHANGED <<diff_vars, renumber_map, web_vars, fetch_vars>>

NextSanitize == Sanitize

SpecSanitize == InitSanitize /\ [][NextSanitize]_vars

\* C10: sanitize_text is idempotent: a text that sanitize_text has produced
\* is left as it is by another call.
C10_Idempotent == pc = "clean" => sanitize_text(raw) = raw

-----------------------------------------------------------------------------
(* split_sections followed by index_by_id on one text                      *)

InitSplit ==
    /\ pc = "raw"
    /\ raw \in SplitInputs
    /\ passes = 0
    /\ sections = NoSections
    /\ old_by_id = NoIndex
    /\ new_by_id = NoIndex
    /\ changes = <<>>
    /\ stats = NoStats
    /\ NoDiff
    /\ renumber_map = <<>>
    /\ NoWeb
    /\ NoFetch
    /\ unchanged = <<>>
    /\ min_diff = 0
    /\ min_ratio = <<0, 1>>
    /\ program = "app"

SplitSections ==
    /\ pc = "raw"
    /\ sections' = split_sections(raw)
    /\ pc' = "split"
    /\ UNCHANGED <<raw, passes, old_by_id, new_by_id, changes, stats, unchanged,
                   min_diff, min_ratio, program>>
    /\ UNCHANGED <<diff_vars, renumber_map, web_vars, fetch_vars>>

IndexById ==
    /\ pc = "split"
    /\ new_by_id' = index_by_id(sections)
    /\ pc' = "indexed"
    /\ UNCHANGED <<raw, passes, sections, old_by_id, changes, stats, unchanged,
                   min_diff, min_ratio, program>>
    /\ UNCHANGED <<diff_vars, renumber_map, web_vars, fetch_vars>>

NextSplit == SplitSections \/ IndexById

SpecSplit == InitSplit /\ [][NextSplit]_vars

SecCount(s) == Len(FindIter(s, "SEC"))

DivCount(s) == Len(FindIter(s, "DIV"))

TitleCount(s) == Len(FindIter(s, "TITLE"))

SubCount(s) == Len(FindIter(s, "SUB"))

HasPrefix(s, w) == LitAt(s, 1, w)

\* the strategy an id comes from, read off its shape
IdStrategy(id) ==
    IF Len(id) > 0 /\ id[1] \in Digits THEN "SEC"
    ELSE IF HasPrefix(id, Chars("DIV")) THEN "DIV"
    ELSE IF HasPrefix(id, Chars("TITLE")) THEN "TITLE"
    ELSE IF HasPrefix(id, Chars("SUB")) THEN "SUB"
    ELSE IF id = Chars("ALL") THEN "ALL"
    ELSE "?"

Strategies(secs) == {IdStrategy(secs[k].sec_id) : k \in 1..Len(secs)}

\* C7: the ids of the sections split_sections returns are pairwise distinct,
\* so index_by_id keeps every one of them.
C7_UniqueIds ==
    /\ pc \in {"split", "indexed"} =>
          \A j, k \in 1..Len(sections) :
              sections[j].sec_id = sections[k].sec_id => j = k
    /\ pc = "indexed" => Len(new_by_id) = Len(sections)

\* C8: split_sections returns at least one section, and for a text without
\* any line-anchored header exactly the section ALL / FULL TEXT whose body
\* is the stripped text.
C8_NeverEmpty ==
    pc = "split" =>
        /\ Len(sections) >= 1
        /\ (SecCount(raw) = 0 /\ DivCount(raw) = 0 /\ TitleCount(raw) = 0
                /\ SubCount(raw) = 0)
           => /\ Len(sections) = 1
              /\ sections[1].sec_id = Chars("ALL")
              /\ sections[1].title = Chars("FULL TEXT")
              /\ sections[1].body = Strip(raw)

C8_Witness ==
    /\ pc = "split"
    /\ SecCount(raw) = 0 /\ DivCount(raw) = 0 /\ TitleCount(raw) = 0
    /\ SubCount(raw) = 0
    /\ Strip(raw) # raw
    /\ Strip(raw) # <<>>
    /\ sections[1].sec_id = Chars("ALL")

\* the strategy the priority order selects when the numbered-section
\* strategy is not used
FallbackStrategy(s) ==
    IF DivCount(s) > 0 THEN "DIV"
    ELSE IF TitleCount(s) > 0 THEN "TITLE"
    ELSE IF SubCount(s) > 0 THEN "SUB"
    ELSE "ALL"

-----------------------------------------------------------------------------
(* summarize_changes on the indexes of two versions, by either script      *)

Init ==
    /\ pc = "indexed"
    /\ raw = <<>>
    /\ passes = 0
    /\ sections = NoSections
    /\ \/ /\ program = "app"
          /\ \E inp \in CompareInputs : old_by_id = inp[1] /\ new_by_id = inp[2]
          /\ min_diff = MIN_DIFF_TOKENS
          /\ min_ratio = MIN_EQUAL_RATIO
       \/ /\ program = "explorer"
          /\ \E inp \in explorer_Inputs : old_by_id = inp[1] /\ new_by_id = inp[2]
          /\ min_diff = explorer_MIN_DIFF_TOKENS
          /\ min_ratio = explorer_MIN_EQUAL_RATIO
    /\ changes = <<>>
    /\ stats = NoStats
    /\ NoDiff
    /\ renumber_map = <<>>
    /\ NoWeb
    /\ NoFetch
    /\ unchanged = <<>>

\* the assignment of the returned triple
Assign(res) ==
    /\ changes' = res.changes
    /\ stats' = res.stats
    /\ unchanged' = res.unchanged

\* app.py: changes, stats, unchanged = summarize_changes(old_by_id, new_by_id)
SummarizeChanges ==
    /\ pc = "indexed"
    /\ program = "app"
    /\ Assign(summarize_changes(old_by_id, new_by_id, min_diff, min_ratio))
    /\ pc' = "done"
    /\ UNCHANGED <<raw, passes, sections, old_by_id, new_by_id, min_diff, min_ratio,
                   program>>
    /\ UNCHANGED <<diff_vars, renumber_map, web_vars, fetch_vars>>

\* explorer.py: the same call, on its own summarize_changes
explorer_SummarizeChanges ==
    /\ pc = "indexed"
    /\ program = "explorer"
    /\ Assign(explorer_summarize_changes(old_by_id, new_by_id, min_diff, min_ratio))
    /\ pc' = "done"
    /\ UNCHANGED <<raw, passes, sections, old_by_id, new_by_id, min_diff, min_ratio,
                   program>>
    /\ renumber_map' = build_renumber_map(old_by_id, new_by_id)
    /\ UNCHANGED <<diff_vars, web_vars, fetch_vars>>

Next == SummarizeChanges \/ explorer_SummarizeChanges

Spec == Init /\ [][Next]_vars

\* the newer index as the loop of summarize_changes reads it
ComparedNew ==
    IF program = "explorer"
    THEN Rekey(new_by_id, build_renumber_map(old_by_id, new_by_id))
    ELSE new_by_id

InBoth == Keys(old_by_id) \cap Keys(ComparedNew)

BodyA(sid) == Strip(Get(old_by_id, sid).body)

BodyB(sid) == Strip(Get(ComparedNew, sid).body)

\* the magnitude the running script computes for the two bodies of sid
Magnitude(sid) ==
    IF program = "explorer" THEN explorer_diff_magnitude(BodyA(sid), BodyB(sid))
    ELSE diff_magnitude(BodyA(sid), BodyB(sid))

\* changed_token_count < MIN_DIFF_TOKENS or equal_ratio >= MIN_EQUAL_RATIO,
\* for the thresholds in force
BelowThresholds(m) ==
    \/ m.changed < min_diff
    \/ m.ratio[1] * min_ratio[2] >= min_ratio[1] * m.ratio[2]

WithStatus(status) == {k \in 1..Len(changes) : changes[k].status = status}

ChangesOf(sid) == {k \in 1..Len(changes) : changes[k].sec_id = sid}

UnchangedOf(sid) == {k \in 1..Len(unchanged) : unchanged[k].sec_id = sid}

\* C1: the counters reconcile with the two lists: added + removed + modified
\* is the number of change records, unchanged is the number of unchanged
\* records, and each of added, removed, modified is the number of change
\* records with that status.
C1_StatsReconcile ==
    pc = "done" =>
        /\ stats.added + stats.removed + stats.modified = Len(changes)
        /\ stats.unchanged = Len(unchanged)
        /\ stats.added = Cardinality(WithStatus("Added"))
        /\ stats.removed = Cardinality(WithStatus("Removed"))
        /\ stats.modified = Cardinality(WithStatus("Modified"))

\* a result with records of all four kinds
C1_Witness ==
    /\ pc = "done"
    /\ stats.added >= 1 /\ stats.removed >= 1
    /\ stats.modified >= 1 /\ stats.unchanged >= 1

\* C2: in app.py every id of the old or the new index has exactly one output
\* entry, a change record or an unchanged record; an id of only one index
\* has a change record; no entry has an id of neither index.
C2_OneEntryPerId ==
    (pc = "done" /\ program = "app") =>
        /\ \A sid \in Keys(old_by_id) \cup Keys(new_by_id) :
              /\ Cardinality(ChangesOf(sid)) + Cardinality(UnchangedOf(sid)) = 1
              /\ sid \notin Keys(old_by_id) \cap Keys(new_by_id)
                     => Cardinality(ChangesOf(sid)) = 1
        /\ \A k \in 1..Len(changes) :
              changes[k].sec_id \in Keys(old_by_id) \cup Keys(new_by_id)
        /\ \A k \in 1..Len(unchanged) :
              unchanged[k].sec_id \in Keys(old_by_id) \cap Keys(new_by_id)

\* ids of the old index only, of the new index only and of both
C2_Witness ==
    /\ pc = "done" /\ program = "app"
    /\ Keys(old_by_id) \ Keys(new_by_id) # {}
    /\ Keys(new_by_id) \ Keys(old_by_id) # {}
    /\ Keys(old_by_id) \cap Keys(new_by_id) # {}
    /\ Len(changes) >= 2 /\ Len(unchanged) >= 1

AmountChanged ==
    /\ pc = "done"
    /\ min_diff = MIN_DIFF_TOKENS /\ min_ratio = MIN_EQUAL_RATIO
    /\ Chars("2") \in Keys(old_by_id) \cap Keys(new_by_id)
    /\ Get(old_by_id, Chars("2")).body = FiveMillion
    /\ Get(new_by_id, Chars("2")).body = FiftyMillion

\* C5 as claimed: the changed amount yields a change record for "2" with
\* status Modified, the tag Funding, is_approp, and a redline that deletes
\* the old amount and inserts the new one.
C5_AmountReported ==
    AmountChanged =>
        \E k \in ChangesOf(Chars("2")) :
            /\ changes[k].status = "Modified"
            /\ \E t \in 1..Len(changes[k].tags) : changes[k].tags[t] = "Funding"
            /\ changes[k].is_approp
            /\ \E i \in 1..Len(changes[k].redline) :
                   LitAt(changes[k].redline, i, Chars("<del>$5,000,000"))
            /\ \E i \in 1..Len(changes[k].redline) :
                   LitAt(changes[k].redline, i, Chars("<ins>$50,000,000"))

\* C5 amended: the changed amount is one changed token out of four, below
\* MIN_DIFF_TOKENS, so "2" gets no change record and one unchanged record,
\* with the new body.
C5_AmountIgnored ==
    AmountChanged =>
        /\ diff_magnitude(FiveMillion, FiftyMillion) = [changed |-> 1, ratio |-> <<3, 4>>]
        /\ ChangesOf(Chars("2")) = {}
        /\ Cardinality(UnchangedOf(Chars("2"))) = 1
        /\ \A k \in UnchangedOf(Chars("2")) : unchanged[k].body = FiftyMillion

C5_Witness ==
    /\ AmountChanged
    /\ program = "app"
    /\ UnchangedOf(Chars("2")) # {}
    /\ stats.modified = 0

\* C6: in the change list the records with is_approp come first, and within
\* each of the two groups the ids are in the order of the key
\* (len(sec_id), sec_id).
C6_ShortThenLexicographic ==
    pc = "done" =>
        \A j, k \in 1..Len(changes) :
            j < k =>
                /\ changes[j].is_approp \/ ~ changes[k].is_approp
                /\ changes[j].is_approp = changes[k].is_approp
                       => SortKeyLess(changes[j].sec_id, changes[k].sec_id)

-----------------------------------------------------------------------------
(* summarize_changes of app.py under other values of the two thresholds    *)

InitTune ==
    /\ pc = "indexed"
    /\ raw = <<>>
    /\ passes = 0
    /\ sections = NoSections
    /\ \E inp \in TuneInputs : old_by_id = inp[1] /\ new_by_id = inp[2]
    /\ changes = <<>>
    /\ stats = NoStats
    /\ NoDiff
    /\ renumber_map = <<>>
    /\ NoWeb
    /\ NoFetch
    /\ unchanged = <<>>
    /\ min_diff \in TuneDiffs
    /\ min_ratio \in TuneRatios
    /\ program = "app"

\* MIN_DIFF_TOKENS and MIN_EQUAL_RATIO are given other values and the same
\* two indexes are compared again
Retune ==
    /\ pc \in {"done", "retuned"}
    /\ program = "app"
    /\ \E d \in TuneDiffs, r \in TuneRatios :
          /\ min_diff' = d
          /\ min_ratio' = r
          /\ Assign(summarize_changes(old_by_id, new_by_id, d, r))
    /\ pc' = "retuned"
    /\ UNCHANGED <<raw, passes, sections, old_by_id, new_by_id, program>>
    /\ UNCHANGED <<diff_vars, renumber_map, web_vars, fetch_vars>>

NextTune == SummarizeChanges \/ Retune

SpecTune == InitTune /\ [][NextTune]_vars

UnchangedIds == {unchanged[k].sec_id : k \in 1..Len(unchanged)}

\* C4 as claimed: when neither threshold is lowered, every section that was
\* Unchanged is still Unchanged.
C4_RaisingEither ==
    [][(/\ pc \in {"done", "retuned"}
        /\ pc' = "retuned"
        /\ min_diff <= min_diff'
        /\ min_ratio[1] * min_ratio'[2] <= min_ratio'[1] * min_ratio[2])
       => \A sid \in UnchangedIds :
              \E k \in 1..Len(unchanged') : unchanged'[k].sec_id = sid]_vars

\* C4 amended: when MIN_DIFF_TOKENS is not lowered and MIN_EQUAL_RATIO is not
\* raised, every section that was Unchanged is still Unchanged.
C4_RaisingDiffLoweringRatio ==
    [][(/\ pc \in {"done", "retuned"}
        /\ pc' = "retuned"
        /\ min_diff <= min_diff'
        /\ min_ratio'[1] * min_ratio[2] <= min_ratio[1] * min_ratio'[2])
       => \A sid \in UnchangedIds :
              \E k \in 1..Len(unchanged') : unchanged'[k].sec_id = sid]_vars

\* after a change of thresholds, a section with different bodies is
\* Unchanged that the thresholds 1 and 1/1 report as Modified
C4_Witness ==
    /\ pc = "retuned"
    /\ min_diff > 1
    /\ \E sid \in InBoth :
          /\ BodyA(sid) # BodyB(sid)
          /\ diff_magnitude(BodyA(sid), BodyB(sid)).changed >= 1
          /\ sid \in UnchangedIds

-----------------------------------------------------------------------------
(* The diff functions applied to one pair of texts                         *)

MaxDiffPieces == 2

DiffPieces == {Chars("a b"), Chars("b a"), <<" ">>, <<"\n">>, Chars("<&")}

DiffTexts == Concats(DiffPieces, MaxDiffPieces)

\* 200 tokens, so that difflib's autojunk heuristic is in force
LongText == Repeat(Chars("a "), 100)

LongDiffPairs == {<<LongText, LongText>>, <<LongText, LongText \o Chars("b")>>}

\* texts with the keywords of categorize_change and APPROPS_HINTS, whole
\* and in parts
CatTexts ==
    {Chars(w) : w \in {"", "may", "not", "may not", "shall", "not later", "than",
                       "fundamental", "funds", "refund", "grant", "$", "5",
                       "Appropriating", "transfer", "report to", "congress"}}

DiffInputs ==
    (DiffTexts \X DiffTexts) \cup (CatTexts \X CatTexts) \cup LongDiffPairs

InitDiff ==
    /\ pc = "pair"
    /\ raw = <<>>
    /\ passes = 0
    /\ sections = NoSections
    /\ old_by_id = NoIndex
    /\ new_by_id = NoIndex
    /\ changes = <<>>
    /\ stats = NoStats
    /\ unchanged = <<>>
    /\ min_diff = 0
    /\ min_ratio = <<0, 1>>
    /\ program \in {"app", "explorer"}
    /\ \E inp \in DiffInputs : old_text = inp[1] /\ new_text = inp[2]
    /\ redline = <<>>
    /\ opcodes = <<>>
    /\ magnitude = NoMagnitude
    /\ tags = <<>>
    /\ renumber_map = <<>>
    /\ NoWeb
    /\ NoFetch

\* app.py: diff_words_preserve_ws(a, b), with the opcodes it walks
DiffWords ==
    /\ pc = "pair"
    /\ program = "app"
    /\ redline' = diff_words_preserve_ws(old_text, new_text)
    /\ opcodes' = get_opcodes(TokensWithWs(old_text), TokensWithWs(new_text), TRUE)
    /\ pc' = "diffed"
    /\ UNCHANGED <<raw, passes, sections, old_by_id, new_by_id, changes, stats,
                   unchanged, min_diff, min_ratio, program, old_text, new_text,
                   magnitude, tags, renumber_map, web_vars, fetch_vars>>

\* app.py: diff_magnitude(a, b)
DiffMagnitude ==
    /\ pc = "pair"
    /\ program = "app"
    /\ magnitude' = diff_magnitude(old_text, new_text)
    /\ pc' = "measured"
    /\ UNCHANGED <<raw, passes, sections, old_by_id, new_by_id, changes, stats,
                   unchanged, min_diff, min_ratio, program, old_text, new_text,
                   redline, opcodes, tags, renumber_map, web_vars, fetch_vars>>

\* explorer.py: diff_magnitude(a, b)
explorer_DiffMagnitude ==
    /\ pc = "pair"
    /\ program = "explorer"
    /\ magnitude' = explorer_diff_magnitude(old_text, new_text)
    /\ pc' = "measured"
    /\ UNCHANGED <<raw, passes, sections, old_by_id, new_by_id, changes, stats,
                   unchanged, min_diff, min_ratio, program, old_text, new_text,
                   redline, opcodes, tags, renumber_map, web_vars, fetch_vars>>

\* app.py: categorize_change(before, after)
CategorizeChange ==
    /\ pc = "pair"
    /\ program = "app"
    /\ tags' = categorize_change(old_text, new_text)
    /\ pc' = "tagged"
    /\ UNCHANGED <<raw, passes, sections, old_by_id, new_by_id, changes, stats,
                   unchanged, min_diff, min_ratio, program, old_text, new_text,
                   redline, opcodes, magnitude, renumber_map, web_vars, fetch_vars>>

NextDiff == DiffWords \/ DiffMagnitude \/ explorer_DiffMagnitude \/ CategorizeChange

SpecDiff == InitDiff /\ [][NextDiff]_vars

\* the last index q <= i of r that holds the character c, or 0
LastAt(r, i, c) ==
    LET hits == {q \in 1..i : r[q] = c} IN IF hits = {} THEN 0 ELSE SetMax(hits)

\* r[i] belongs to one of the tags <del>, </del>, <ins>, </ins>; esc leaves
\* no other < or > in the markup
InTag(r, i) == LastAt(r, i, "<") > 0 /\ \A q \in LastAt(r, i, "<")..(i - 1) : r[q] # ">"

\* r[i] belongs to an entity of esc, after its &
InEntity(r, i) ==
    /\ r[i] # "&"
    /\ LastAt(r, i, "&") > 0
    /\ \A q \in LastAt(r, i, "&")..(i - 1) : r[q] # ";"

\* the span r[i] lies in: "del", "ins", or "equal" outside both
SpanKindAt(r, i) ==
    IF LastAt(r, i, "<") = 0 THEN "equal"
    ELSE IF LitAt(r, LastAt(r, i, "<"), Chars("<del>")) THEN "del"
    ELSE IF LitAt(r, LastAt(r, i, "<"), Chars("<ins>")) THEN "ins"
    ELSE "equal"

\* the character that esc has written at r[i]
Unescaped(r, i) ==
    IF r[i] # "&" THEN r[i]
    ELSE IF LitAt(r, i, Chars("&amp;")) THEN "&"
    ELSE IF LitAt(r, i, Chars("&lt;")) THEN "<"
    ELSE ">"

TextAt(r, keep) == [k \in 1..Len(keep) |-> Unescaped(r, keep[k])]

\* the texts of the spans of the given kinds, in order, before escaping
SpanTexts(r, kinds) ==
    TextAt(r, SelectSeq(Indices(r),
                LAMBDA i : ~ InTag(r, i) /\ ~ InEntity(r, i) /\ SpanKindAt(r, i) \in kinds))

\* the opcodes cover 1..la and 1..lb in order, without gap or overlap
Contiguous(ops, la, lb) ==
    IF ops = <<>> THEN la = 0 /\ lb = 0
    ELSE /\ ops[1].i1 = 1 /\ ops[1].j1 = 1
         /\ ops[Len(ops)].i2 = la + 1 /\ ops[Len(ops)].j2 = lb + 1
         /\ \A n \in 1..Len(ops) : ops[n].i1 <= ops[n].i2 /\ ops[n].j1 <= ops[n].j2
         /\ \A n \in 1..(Len(ops) - 1) :
               ops[n + 1].i1 = ops[n].i2 /\ ops[n + 1].j1 = ops[n].j2

OpTags(ops) == {ops[n].tag : n \in 1..Len(ops)}

\* C11: the redline is lossless: its equal and deleted spans, in order and
\* unescaped, spell the older text, its equal and inserted spans the newer
\* text, and the opcodes cover both token sequences without gap or overlap.
C11_Lossless ==
    pc = "diffed" =>
        /\ SpanTexts(redline, {"equal", "del"}) = old_text
        /\ SpanTexts(redline, {"equal", "ins"}) = new_text
        /\ Contiguous(opcodes, Len(TokensWithWs(old_text)), Len(TokensWithWs(new_text)))

C11_Witness ==
    /\ pc = "diffed"
    /\ {"equal", "replace"} \subseteq OpTags(opcodes)
    /\ \E i \in 1..Len(old_text) : old_text[i] = "<"

\* C12: a non-empty text aligned with itself gives equal_ratio 1.0,
\* changed_token_count 0 and a redline that is one equal span, without any
\* inserted or deleted span.
C12_SelfDiffEmpty ==
    (old_text = new_text /\ old_text # <<>>) =>
        /\ pc = "diffed" =>
              /\ Len(opcodes) = 1
              /\ opcodes[1].tag = "equal"
              /\ \A i \in 1..Len(redline) : redline[i] # "<"
              /\ SpanTexts(redline, {"equal"}) = old_text
        /\ pc = "measured" =>
              /\ magnitude.changed = 0
              /\ magnitude.ratio[1] = magnitude.ratio[2]
              /\ magnitude.ratio[2] > 0

C12_Witness ==
    /\ pc = "measured"
    /\ program = "app"
    /\ old_text = new_text
    /\ Len(_tokenize_for_ratio(old_text)) > 1

\* the opcodes diff_magnitude of app.py walks
RatioOpcodes(a, b) == get_opcodes(_tokenize_for_ratio(a), _tokenize_for_ratio(b), FALSE)

\* C13: the changed_token_count of diff_magnitude in app.py is the sum, over
\* the opcodes that are not equal, of the a-tokens plus the b-tokens they
\* cover, a replace of m old and n new tokens counting m + n.
C13_ChangedCountsBothSides ==
    (pc = "measured" /\ program = "app") =>
        magnitude.changed =
            OpcodeSum(RatioOpcodes(old_text, new_text),
                      Len(RatioOpcodes(old_text, new_text)), "both")

\* the token sequences diff_magnitude aligns, in the program that runs
MeasuredTokens(s) ==
    IF program = "app" THEN _tokenize_for_ratio(s)
    ELSE TokensWithWs(normalize_for_diff(s))

MeasuredOpcodes ==
    get_opcodes(MeasuredTokens(old_text), MeasuredTokens(new_text), program # "app")

EqualTokens == OpcodeSum(MeasuredOpcodes, Len(MeasuredOpcodes), "equal")

LongerSide == Max2(Len(MeasuredTokens(old_text)), Len(MeasuredTokens(new_text)))

\* C14: the equal_ratio of diff_magnitude is the number of tokens in equal
\* opcodes divided by max(len(a_tokens), len(b_tokens)); it lies in [0, 1]
\* and is 1.0 when both token sequences are empty.
C14_RatioOverLongerSide ==
    pc = "measured" =>
        /\ magnitude.ratio[2] > 0
        /\ 0 <= magnitude.ratio[1] /\ magnitude.ratio[1] <= magnitude.ratio[2]
        /\ LongerSide = 0 => magnitude.ratio[1] = magnitude.ratio[2]
        /\ LongerSide > 0 =>
              magnitude.ratio[1] * LongerSide = EqualTokens * magnitude.ratio[2]

\* C15: categorize_change is order-independent: the tags of (before, after)
\* are the tags of (after, before), also when a keyword of several words
\* ends one argument and begins the other.
C15_OrderIndependent ==
    pc = "tagged" => tags = categorize_change(new_text, old_text)

HasTag(ts, tag) == \E n \in 1..Len(ts) : ts[n] = tag

\* C16: the appropriations hint is broader than the Funding tag: a text t
\* for which categorize_change("", t) holds Funding is matched by
\* APPROPS_HINTS, so that a record tagged Funding has is_approp = true.
C16_HintCoversFunding ==
    (pc = "tagged" /\ old_text = <<>> /\ HasTag(tags, "Funding")) => IsApprop(new_text)

-----------------------------------------------------------------------------
(* summarize_changes of explorer.py on renumbered sections                 *)

\* two titles at ratio 0.90 exactly, and a third at 0.84 from both
RenumberTitles == {Chars("Findings A"), Chars("Findings B"), Chars("Finding C")}

OldIds == <<Chars("1"), Chars("2"), Chars("3")>>

\* the newer ids, with the id common to both versions last or first
NewIdOrders == {<<Chars("4"), Chars("5"), Chars("1")>>,
                <<Chars("1"), Chars("4"), Chars("5")>>}

\* the indexes of the first sections of ids, under every choice of titles
Sides(ids) ==
    UNION {{[k \in 1..n |-> Section(ids[k], t[k], Plain)] :
               t \in [1..n -> RenumberTitles]} : n \in 0..Len(ids)}

RenumberInputs == Sides(OldIds) \X UNION {Sides(ids) : ids \in NewIdOrders}

InitRenumber ==
    /\ pc = "indexed"
    /\ raw = <<>>
    /\ passes = 0
    /\ sections = NoSections
    /\ program = "explorer"
    /\ \E inp \in RenumberInputs : old_by_id = inp[1] /\ new_by_id = inp[2]
    /\ min_diff = explorer_MIN_DIFF_TOKENS
    /\ min_ratio = explorer_MIN_EQUAL_RATIO
    /\ changes = <<>>
    /\ stats = NoStats
    /\ unchanged = <<>>
    /\ NoDiff
    /\ renumber_map = <<>>
    /\ NoWeb
    /\ NoFetch

NextRenumber == explorer_SummarizeChanges

SpecRenumber == InitRenumber /\ [][NextRenumber]_vars

CommonIds == Keys(old_by_id) \cap Keys(new_by_id)

SmallerSide == Min2(Len(old_by_id), Len(new_by_id))

\* C17: build_renumber_map returns a non-empty mapping only when the ids
\* common to both versions are fewer than half of min(len(old), len(new));
\* otherwise, and when either version is empty, the mapping is empty.
C17_OnlyBelowHalfOverlap ==
    pc = "done" =>
        /\ renumber_map # <<>> => 2 * Cardinality(CommonIds) < SmallerSide
        /\ (old_by_id = <<>> \/ new_by_id = <<>>) => renumber_map = <<>>

C17_Witness ==
    /\ pc = "done"
    /\ renumber_map # <<>>
    /\ Cardinality(CommonIds) = 1

\* the position of the section id in an index
PosIn(ix, id) == CHOOSE k \in 1..Len(ix) : ix[k].sec_id = id

MappedOld(p) == renumber_map[p][1]

MappedNew(p) == renumber_map[p][2]

\* the title-similarity ratio of the old id o and the new id n
Score(o, n) == TitleRatio(Get(old_by_id, o).title, Get(new_by_id, n).title)

\* the new ids used by the old sections met before position k of old_by_id
UsedBefore(k) ==
    {MappedNew(q) : q \in {r \in 1..Len(renumber_map) : PosIn(old_by_id, MappedOld(r)) < k}}

\* the loop of build_renumber_map has run
LoopRan == 2 * Cardinality(CommonIds) < SmallerSide

\* C18: the mapping is a partial injection from old ids to new ids, filled
\* in the encounter order of the old sections; each pair joins an old id to
\* the best-scoring new id not used before, and only at a ratio >= 0.90.
C18_GreedyInjection ==
    pc = "done" =>
        /\ \A p, q \in 1..Len(renumber_map) :
              (MappedNew(p) = MappedNew(q) \/ MappedOld(p) = MappedOld(q)) => p = q
        /\ \A p, q \in 1..Len(renumber_map) :
              p < q => PosIn(old_by_id, MappedOld(p)) < PosIn(old_by_id, MappedOld(q))
        /\ \A p \in 1..Len(renumber_map) :
              /\ MappedOld(p) \in Keys(old_by_id)
              /\ MappedNew(p) \in Keys(new_by_id)
              /\ RatioGE(Score(MappedOld(p), MappedNew(p)), <<90, 100>>)
              /\ \A n \in Keys(new_by_id) \ UsedBefore(PosIn(old_by_id, MappedOld(p))) :
                    ~ RatioGT(Score(MappedOld(p), n), Score(MappedOld(p), MappedNew(p)))
        /\ LoopRan =>
              \A k \in 1..Len(old_by_id) :
                  (\A p \in 1..Len(renumber_map) : MappedOld(p) # old_by_id[k].sec_id) =>
                      \A n \in Keys(new_by_id) \ UsedBefore(k) :
                          ~ RatioGE(Score(old_by_id[k].sec_id, n), <<90, 100>>)

\* two old sections are mapped and a third, met between or after them, finds
\* no unused new section that is close enough
C18_Witness ==
    /\ pc = "done"
    /\ Len(renumber_map) = 2
    /\ Len(old_by_id) = 3
    /\ Len(new_by_id) = 3
    /\ \E p \in 1..2 : Score(MappedOld(p), MappedNew(p)) = <<18, 20>>

\* C19: build_renumber_map pairs unmatched sections only: no old id of the
\* mapping is an id of the newer version and no new id of the mapping is an
\* id of the older version.
C19_OnlyUnmatched ==
    pc = "done" =>
        \A p \in 1..Len(renumber_map) :
            /\ MappedOld(p) \notin Keys(new_by_id)
            /\ MappedNew(p) \notin Keys(old_by_id)

\* the number of output entries under the id sid
EntriesUnder(sid) == Cardinality(ChangesOf(sid)) + Cardinality(UnchangedOf(sid))

\* C20: a section the realigner maps from old id o to new id n is reported
\* once, under the new id n (as Unchanged when the bodies are equal), and
\* neither as Removed under o nor as Added under n.
C20_ReportedUnderNewId ==
    pc = "done" =>
        \A p \in 1..Len(renumber_map) :
            /\ EntriesUnder(MappedNew(p)) = 1
            /\ MappedOld(p) # MappedNew(p) => EntriesUnder(MappedOld(p)) = 0
            /\ \A k \in ChangesOf(MappedNew(p)) : changes[k].status # "Added"
            /\ \A k \in ChangesOf(MappedOld(p)) : changes[k].status # "Removed"

-----------------------------------------------------------------------------
(* The records of summarize_changes, one by one                            *)

AddedIds == Keys(new_by_id) \ Keys(old_by_id)

\* the number of <ins> tags in the markup r
InsCount(r) == Cardinality({i \in 1..Len(r) : LitAt(r, i, Chars("<ins>"))})

\* C21: for an id of the newer version that the older version lacks, app.py
\* emits exactly one change record: status Added, tags those of
\* categorize_change("", new_body), is_approp from the new body alone, and a
\* redline that is one inserted span holding the entire new body.
C21_AddedRecord ==
    (pc = "done" /\ program = "app") =>
        \A sid \in AddedIds :
            /\ Cardinality(ChangesOf(sid)) = 1
            /\ UnchangedOf(sid) = {}
            /\ \A k \in ChangesOf(sid) :
                  /\ changes[k].status = "Added"
                  /\ changes[k].tags = categorize_change(<<>>, Get(new_by_id, sid).body)
                  /\ changes[k].is_approp = IsApprop(Get(new_by_id, sid).body)
                  /\ InsCount(changes[k].redline) = 1
                  /\ SpanTexts(changes[k].redline, {"ins"}) = Get(new_by_id, sid).body
                  /\ SpanTexts(changes[k].redline, {"equal", "del"}) = <<>>

C21_Witness ==
    /\ pc = "done"
    /\ program = "app"
    /\ \E sid \in AddedIds :
          /\ Get(new_by_id, sid).body = FiftyMillion
          /\ \E k \in ChangesOf(sid) : changes[k].is_approp

-----------------------------------------------------------------------------
(* view's pipeline on two fetched versions that are the same text          *)

SelfPieces ==
    {Chars("SEC. 1. ..."), <<"\n">> \o Chars("SEC. 1. again.") \o <<"\n">>,
     Chars("SEC. 2: Funds $5.") \o <<"\n">>, Chars("Sec. 10a x") \o <<"\n">>,
     Chars("SEC."), <<"\n">>, <<" ">>, Chars(" x. [[Page 3]]"),
     Chars("DIVISION A") \o <<"\n">>}

SelfInputs == Concats(SelfPieces, MaxPieces)

InitSelf ==
    /\ pc = "fetched"
    /\ raw \in SelfInputs
    /\ passes = 0
    /\ sections = NoSections
    /\ old_by_id = NoIndex
    /\ new_by_id = NoIndex
    /\ changes = <<>>
    /\ stats = NoStats
    /\ NoDiff
    /\ renumber_map = <<>>
    /\ NoWeb
    /\ NoFetch
    /\ unchanged = <<>>
    /\ min_diff = MIN_DIFF_TOKENS
    /\ min_ratio = MIN_EQUAL_RATIO
    /\ program = "app"

\* view, from the two fetched texts (both raw) to the summary: sanitize_text,
\* split_sections and index_by_id on each, then summarize_changes
ViewPipeline ==
    /\ pc = "fetched"
    /\ sections' = split_sections(sanitize_text(raw))
    /\ old_by_id' = index_by_id(sections')
    /\ new_by_id' = index_by_id(sections')
    /\ Assign(summarize_changes(old_by_id', new_by_id', min_diff, min_ratio))
    /\ pc' = "compared"
    /\ UNCHANGED <<raw, passes, min_diff, min_ratio, program>>
    /\ UNCHANGED <<diff_vars, renumber_map, web_vars, fetch_vars>>

NextSelf == ViewPipeline

SpecSelf == InitSelf /\ [][NextSelf]_vars

\* the section ids that split_sections found, duplicates counted once
SectionIds == {sections[i].sec_id : i \in 1..Len(sections)}

\* C22: comparing a document with itself reports no change: nothing added,
\* removed or modified, no change record, and exactly one Unchanged record
\* for each distinct section id; the text "SEC. 1. ..." gives one Unchanged
\* record, with id "1".
C22_SelfCompareUnchanged ==
    pc = "compared" =>
        /\ stats.added = 0 /\ stats.removed = 0 /\ stats.modified = 0
        /\ changes = <<>>
        /\ stats.unchanged = Cardinality(SectionIds)
        /\ Len(unchanged) = Cardinality(SectionIds)
        /\ \A sid \in SectionIds : Cardinality(UnchangedOf(sid)) = 1
        /\ raw = Chars("SEC. 1. ...") =>
              /\ Len(unchanged) = 1
              /\ unchanged[1].sec_id = Chars("1")

\* a text with two distinct sections and a repeated id has been compared
\* with itself
C22_Witness ==
    /\ pc = "compared"
    /\ Cardinality(SectionIds) = 2
    /\ Len(sections) = 3
    /\ Len(unchanged) = 2

-----------------------------------------------------------------------------
(* The re-keyed index of explorer.py                                       *)

\* C23: applying a non-empty renumber mapping loses no section: the re-keyed
\* index has as many entries as new_by_id, and every section of the newer
\* version is counted in exactly one output entry (added, unchanged or
\* modified), also when the newer version keeps an id whose older section
\* was mapped to another new id.
C23_RekeyKeepsEverySection ==
    (pc = "done" /\ program = "explorer" /\ renumber_map # <<>>) =>
        /\ Len(Rekey(new_by_id, renumber_map)) = Len(new_by_id)
        /\ stats.added + stats.unchanged + stats.modified = Len(new_by_id)

-----------------------------------------------------------------------------
(* The /view and /flush routes of app.py and their page cache              *)

\* the keys of PRESETS
PRESETS == {"hr3684-117", "hr748-116", "hr133-116"}

\* request.args.get("preset"): a key of PRESETS, another string, or None
PresetArgs == PRESETS \cup {"hr1-1", "None"}

CACHE_TTL == 6 * 60 * 60

\* the amounts by which the clock moves between two requests
ClockSteps == {(CACHE_TTL \div 2) - 1, CACHE_TTL \div 2}

\* the seconds that fetching and rendering take
FetchTimes == {0, 1}

\* the clock stops after twice CACHE_TTL
MaxClock == 43200

MaxRequests == 3

\* as Fresh, an entry of age CACHE_TTL included
FreshAtTTL(entry, t) == (t - entry[1]) <= CACHE_TTL

\* (time.time() - ts) < CACHE_TTL, for entry = (ts, html_doc)
Fresh(entry, t) == (t - entry[1]) < CACHE_TTL

\* the page build_html renders for a preset from the versions fetched at t
html_doc(preset_key, t) == [preset |-> preset_key, fetched |-> t]

\* CACHE[preset_key] = entry
Store(cache, preset_key, entry) ==
    [k \in (DOMAIN cache) \cup {preset_key} |->
        IF k = preset_key THEN entry ELSE cache[k]]

InitCache ==
    /\ pc = "serving"
    /\ raw = <<>>
    /\ passes = 0
    /\ sections = NoSections
    /\ old_by_id = NoIndex
    /\ new_by_id = NoIndex
    /\ changes = <<>>
    /\ stats = NoStats
    /\ unchanged = <<>>
    /\ min_diff = MIN_DIFF_TOKENS
    /\ min_ratio = MIN_EQUAL_RATIO
    /\ program = "app"
    /\ NoDiff
    /\ renumber_map = <<>>
    /\ NoWeb
    /\ NoFetch

\* the answer to the request numbered response.seq + 1
Answer(path, preset_key, nocache, status, source, body) ==
    [seq |-> response.seq + 1, path |-> path, preset |-> preset_key,
     nocache |-> nocache, status |-> status, source |-> source, body |-> body]

\* GET /view?preset=...&nocache=...; fetched says whether both fetch_version
\* calls return, took is the time they and the rendering take
View ==
    /\ pc = "serving"
    /\ response.seq < MaxRequests
    /\ \E preset_key \in PresetArgs, nocache \in BOOLEAN, fetched \in BOOLEAN,
          took \in FetchTimes :
          IF preset_key \notin PRESETS
          THEN /\ response' = Answer("/view", preset_key, nocache, 400, "abort",
                                     "bad preset")
               /\ UNCHANGED <<CACHE, now>>
          ELSE IF (~ nocache) /\ preset_key \in DOMAIN CACHE
                  /\ Fresh(CACHE[preset_key], now)
          THEN /\ response' = Answer("/view", preset_key, nocache, 200, "cache",
                                     CACHE[preset_key][2])
               /\ UNCHANGED <<CACHE, now>>
          ELSE /\ now + took <= MaxClock
               /\ now' = now + took
               /\ IF fetched
                  THEN /\ CACHE' = Store(CACHE, preset_key,
                                         <<now', html_doc(preset_key, now')>>)
                       /\ response' = Answer("/view", preset_key, nocache, 200,
                                             "computed", html_doc(preset_key, now'))
                  ELSE /\ response' = Answer("/view", preset_key, nocache, 500,
                                             "failed", "RuntimeError")
                       /\ UNCHANGED CACHE
    /\ UNCHANGED <<pc, raw, passes, sections, old_by_id, new_by_id, changes, stats,
                   unchanged, min_diff, min_ratio, program>>
    /\ UNCHANGED <<diff_vars, renumber_map, fetch_vars>>

\* GET /flush
Flush ==
    /\ pc = "serving"
    /\ response.seq < MaxRequests
    /\ CACHE' = EmptyCache
    /\ response' = Answer("/flush", "", FALSE, 200, "flush", "CACHE cleared")
    /\ UNCHANGED <<pc, raw, passes, sections, old_by_id, new_by_id, changes, stats,
                   unchanged, min_diff, min_ratio, program, now>>
    /\ UNCHANGED <<diff_vars, renumber_map, fetch_vars>>

\* time passes between two requests
Tick ==
    /\ pc = "serving"
    /\ \E d \in ClockSteps :
          /\ now + d <= MaxClock
          /\ now' = now + d
    /\ UNCHANGED <<pc, raw, passes, sections, old_by_id, new_by_id, changes, stats,
                   unchanged, min_diff, min_ratio, program, CACHE, response>>
    /\ UNCHANGED <<diff_vars, renumber_map, fetch_vars>>

NextCache == View \/ Flush \/ Tick

SpecCache == InitCache /\ [][NextCache]_vars

\* the step handles a request
Handles == response'.seq = response.seq + 1

\* what holds of a step that handles a /view request
ViewDiscipline ==
    /\ response'.source = "cache" =>
          /\ ~ response'.nocache
          /\ response'.preset \in DOMAIN CACHE
          /\ (now - CACHE[response'.preset][1]) < CACHE_TTL
          /\ response'.body = CACHE[response'.preset][2]
    /\ response.path = "/flush" => response'.source # "cache"
    /\ response'.preset \notin PRESETS =>
          /\ response'.status = 400
          /\ CACHE' = CACHE
    /\ response'.source = "failed" => CACHE' = CACHE

\* C24: in any sequence of /view and /flush requests, a /view is answered
\* from CACHE only if it carries no nocache=1, the preset has an entry and
\* the entry is younger than CACHE_TTL (so an older entry is never served);
\* the /view that follows a /flush recomputes; an unknown preset is answered
\* 400 and leaves CACHE alone; a /view whose fetch fails leaves CACHE alone.
C24_CacheDiscipline ==
    [][(Handles /\ response'.path = "/view") => ViewDiscipline]_vars

\* a page has been served from CACHE one second before it expires
C24_Witness ==
    /\ response.path = "/view"
    /\ response.source = "cache"
    /\ response.preset \in DOMAIN CACHE
    /\ now - CACHE[response.preset][1] = CACHE_TTL - 1

-----------------------------------------------------------------------------
(* fetch_version of app.py and of fetch_bills.py                           *)

\* the kinds of url_candidates, in the order of the returned list
url_candidates ==
    <<"gi_txt", "gi_xml", "gi_htm", "bulk_xml", "bulk_htm", "cg_txt", "cg_html">>

fetch_bills_url_candidates ==
    <<"cg_txt", "cg_html", "gi_txt", "gi_htm", "gi_xml", "bulk_xml", "bulk_htm">>

Candidates(prog) ==
    IF prog = "fetch_bills" THEN fetch_bills_url_candidates ELSE url_candidates

Kinds == {url_candidates[k] : k \in 1..Len(url_candidates)}

\* kind.endswith(suffix)
EndsWith(kind, suffix) == LitAt(Chars(kind), Len(kind) - Len(suffix) + 1, Chars(suffix))

\* app.py: the text t that fetch_version makes of the body of a response
Converted(kind, body) ==
    IF EndsWith(kind, "txt") THEN ReSub(body, "crlf")
    ELSE IF EndsWith(kind, "xml") THEN xml_to_text(body)
    ELSE html_to_text(body)

\* fetch_bills.py: the same, by its own tests and converters
fetch_bills_Converted(kind, body) ==
    IF kind \in {"cg_txt", "gi_txt"} THEN ReSub(body, "crlf")
    ELSE IF kind \in {"cg_html", "gi_htm", "bulk_htm"} THEN fetch_bills_html_to_text(body)
    ELSE fetch_bills_xml_to_text(body)

\* the bodies a mirror may serve: a bill, a page that is mostly mark-up, and
\* an error page long enough to pass for a bill
BillPage == Repeat(Chars("<p>The Secretary shall report.</p>") \o <<"\r", "\n">>, 30)

MarkupPage == Repeat(Chars("<br/><br/>a "), 80)

NotFoundPage == Repeat(Chars("<div>Page Not Found</div>"), 60)

PageNames == {"bill", "markup", "notfound"}

PageBody(name) ==
    CASE name = "bill" -> BillPage
      [] name = "markup" -> MarkupPage
      [] name = "notfound" -> NotFoundPage

\* what a mirror answers: the request raises, or it returns a page
Answers == {"down"} \cup PageNames

FetchPrograms == {"app", "fetch_bills"}

\* the converted text of each page under each kind, by each script
Texts ==
    [prog \in FetchPrograms, kind \in Kinds, name \in PageNames |->
        IF prog = "fetch_bills" THEN fetch_bills_Converted(kind, PageBody(name))
        ELSE Converted(kind, PageBody(name))]

\* looks_like_error of each of them
LooksLikeError ==
    [prog \in FetchPrograms, kind \in Kinds, name \in PageNames |->
        looks_like_error(Texts[prog, kind, name])]

InitFetch ==
    /\ pc = "fetching"
    /\ raw = <<>>
    /\ passes = 0
    /\ sections = NoSections
    /\ old_by_id = NoIndex
    /\ new_by_id = NoIndex
    /\ changes = <<>>
    /\ stats = NoStats
    /\ unchanged = <<>>
    /\ min_diff = MIN_DIFF_TOKENS
    /\ min_ratio = MIN_EQUAL_RATIO
    /\ program \in FetchPrograms
    /\ NoDiff
    /\ renumber_map = <<>>
    /\ NoWeb
    /\ mirrors \in [Kinds -> Answers]
    /\ tried = <<>>
    /\ last = "None"

\* as NextKind, from the end of the list
NextKindFromEnd(cands, done) == cands[Len(cands) - Len(done)]

\* the kind the for loop takes after those of done
NextKind(cands, done) == cands[Len(done) + 1]

\* the body of the loop for one candidate: the text is returned, or the
\* exception is kept in last and the loop goes on
Try(kind, answer) ==
    /\ tried' = Append(tried, kind)
    /\ IF answer = "down"
       THEN /\ last' = "request failed"
            /\ UNCHANGED <<pc, raw>>
       ELSE IF LooksLikeError[program, kind, answer]
       THEN /\ last' = "short/error"
            /\ UNCHANGED <<pc, raw>>
       ELSE /\ raw' = Texts[program, kind, answer]
            /\ pc' = "returned"
            /\ UNCHANGED last

\* one pass of the for loop of fetch_version
TryCandidate ==
    /\ pc = "fetching"
    /\ Len(tried) < Len(Candidates(program))
    /\ Try(NextKind(Candidates(program), tried),
           mirrors[NextKind(Candidates(program), tried)])
    /\ UNCHANGED <<passes, sections, old_by_id, new_by_id, changes, stats,
                   unchanged, min_diff, min_ratio, program, mirrors>>
    /\ UNCHANGED <<diff_vars, renumber_map, web_vars>>

\* the raise that follows the loop
RaiseFailed ==
    /\ pc = "fetching"
    /\ Len(tried) = Len(Candidates(program))
    /\ pc' = "raised"
    /\ UNCHANGED <<raw, passes, sections, old_by_id, new_by_id, changes, stats,
                   unchanged, min_diff, min_ratio, program>>
    /\ UNCHANGED <<diff_vars, renumber_map, web_vars, fetch_vars>>

NextFetch == TryCandidate \/ RaiseFailed

SpecFetch == InitFetch /\ [][NextFetch]_vars

\* every request ends (timeout=60) and every sleep ends, so the loop and the
\* raise after it are eventually executed
SpecFetchFair == SpecFetch /\ WF_vars(TryCandidate) /\ WF_vars(RaiseFailed)

\* the request for kind succeeds and its converted text does not look like
\* an error page
Good(kind) ==
    /\ mirrors[kind] # "down"
    /\ ~ LooksLikeError[program, kind, mirrors[kind]]

\* the candidates have been tried in the order of url_candidates, each at
\* most once and none after a good one; a returned text is that of the first
\* good candidate; the error is raised when all have been tried in vain
FetchOrder ==
    /\ Len(tried) <= Len(Candidates(program))
    /\ tried = SubSeq(Candidates(program), 1, Len(tried))
    /\ \A k \in 1..(Len(tried) - 1) : ~ Good(tried[k])
    /\ pc = "returned" =>
          /\ tried # <<>>
          /\ Good(tried[Len(tried)])
          /\ raw = Texts[program, tried[Len(tried)], mirrors[tried[Len(tried)]]]
    /\ pc = "fetching" => \A k \in 1..Len(tried) : ~ Good(tried[k])
    /\ pc = "raised" =>
          /\ Len(tried) = Len(Candidates(program))
          /\ \A kind \in Kinds : ~ Good(kind)

\* C25: fetch_version tries the candidates in the order of url_candidates,
\* each at most once; it returns the text of the first candidate whose
\* request succeeds and whose converted text does not look like an error
\* page and tries none after it; it raises only when every candidate has
\* failed; and it always ends, with a text or with the error.
C25_FirstGoodInOrder ==
    /\ [] FetchOrder
    /\ <> (pc \in {"returned", "raised"})

\* a text has been returned after a mirror that was down and a mirror that
\* served an error page
C25_Witness ==
    /\ pc = "returned"
    /\ \E j \in 1..(Len(tried) - 1) : mirrors[tried[j]] = "down"
    /\ \E k \in 1..(Len(tried) - 1) : mirrors[tried[k]] = "notfound"

====
